---- MODULE Spec2Model ----
(***************************************************************************)
(* A model of the soulmd repository: the CLI's swap / backup / rollback    *)
(* engine (packages/cli/src/swap.ts), the registry's rating aggregation    *)
(* (POST /:slug/rate), its label minting (slugify / generateLabel) and the *)
(* upload and delete requests that use it.                                 *)
(*                                                                         *)
(* Text is modelled as a sequence of one-character strings, an optional    *)
(* file as a sequence of length 0 (absent) or 1 (present, holding its      *)
(* content).                                                               *)
(***************************************************************************)
EXTENDS Integers, Sequences, FiniteSets, TLC

VARIABLES
    \* --- the CLI's filesystem (swap.ts) ---
    soulFile,      \* the active file at soulPath(): None or Some(content)
    backupFile,    \* the backup slot at backupPath(): None or Some(content)
    soulDir,       \* whether dirname(soulPath()) exists
    backupDir,     \* whether backupDir() exists
    \* --- what the CLI run has observed (history of the calls made) ---
    c0,            \* the active file before the first call
    nOps,          \* the number of calls made
    shape,         \* "init" | "swaps" | "swapsThenRollback" | "other"
    backupWrites,  \* the number of copyFileSync(p, backupPath()) executed
    last,          \* the last call: its name, argument, result and pre-state
    \* --- the registry's database (sqlite.ts schema) ---
    souls,         \* table souls: a set of rows
    ratings,       \* table soul_ratings: a set of rows (soul_id, user_id, rating)
    \* --- the registry's requests ---
    reqs,          \* the rate requests in flight, each with its position in the handler
    nReqs,         \* the number of requests received
    overlapped,    \* whether a request was ever received while another was in flight
    resp,          \* the last request handled to its end, with its response
    storage,       \* the content store: slug -> the content saved as slug/soul.md
    soulSeq,       \* the last AUTOINCREMENT id given out in souls
    uploadRun,     \* the run of successful uploads of one name made so far
    done,          \* the requests handled to their end, statement by statement
    \* --- the CLI's cache and commands (cache.ts, index.ts) ---
    cache,         \* the cache index with the cached contents: a sequence of entries
    cmd,           \* the last command run: its arguments, outcome and pre-state
    \* --- CLI processes running swapSoul side by side (swap.ts) ---
    procs          \* process -> its position in swapSoul and what it has read

swapVars == <<soulFile, backupFile, soulDir, backupDir, c0, nOps, shape, backupWrites, last>>

dbVars == <<souls, ratings>>

concVars == <<done>>

regVars == <<dbVars, reqs, nReqs, overlapped, resp, storage, soulSeq, uploadRun, concVars>>

cliVars == <<cache, cmd, procs>>

vars == <<swapVars, regVars, cliVars>>

----------------------------------------------------------------------------
(* Bounds *)

\* The longest text (before any marker is prepended) a file or an argument holds.
MaxTextLen == 1
\* The number of swap / rollback / exorcise calls in one behaviour.
MaxOps == 4
\* The number of registered users (ids 1..NumUsers).
NumUsers == 3
\* The number of requests the registry receives in one behaviour.
MaxReqs == 3
\* The number of requests the registry receives in one behaviour in which
\* requests run concurrently.
MaxConcReqs == 2
\* The number of ids nanoid can return.
NumSlugs == 4
\* The number of requests the registry receives in one behaviour in which
\* metadata and content updates are among the requests and storage can fail.
MaxRegReqs == 2

----------------------------------------------------------------------------
(* Text *)

None == << >>
Some(c) == << c >>

NL == "\n"

\* const SWAP_MARKER = "<!-- opensoul:swapped -->"
SWAP_MARKER ==
    << "<", "!", "-", "-", " ", "o", "p", "e", "n", "s", "o", "u", "l", ":",
       "s", "w", "a", "p", "p", "e", "d", " ", "-", "-", ">" >>

\* String.prototype.startsWith
StartsWith(s, p) == Len(s) >= Len(p) /\ SubSeq(s, 1, Len(p)) = p

\* The texts over the one-letter alphabet {"#"} of length at most n.
RECURSIVE Hashes(_)
Hashes(n) == IF n = 0 THEN << >> ELSE <<"#">> \o Hashes(n - 1)

PlainTexts == { Hashes(n) : n \in 0..MaxTextLen }

\* The contents a file or an argument is drawn from: plain texts, texts that
\* already begin with the marker (with and without the newline after it), and
\* a text that is a proper prefix of the marker.
Texts ==
    PlainTexts
    \cup { SWAP_MARKER \o <<NL>> \o t : t \in PlainTexts }
    \cup { SWAP_MARKER \o t : t \in PlainTexts }
    \cup { SubSeq(SWAP_MARKER, 1, 4) }

----------------------------------------------------------------------------
(* swap.ts *)

existsSync(f) == f # None

\* isSwapped(): the active file exists and its content starts with the marker
isSwappedFile(f) == existsSync(f) /\ StartsWith(f[1], SWAP_MARKER)

isSwapped == isSwappedFile(soulFile)

hasBackup == existsSync(backupFile)

\* swapSoul, line 50: the condition under which the current file is backed up
ShouldBackup_Always(f) == existsSync(f)
ShouldBackup(f) == ~isSwappedFile(f) /\ existsSync(f)

\* swapSoul, line 58: the content written to the active file
Marked_NoNewline(newContent) == SWAP_MARKER \o newContent
Marked(newContent) == SWAP_MARKER \o <<NL>> \o newContent

\* rollbackSoul, line 67: the active file after copyFileSync(backupPath(), soulPath())
Restored_Stripped(b, f) ==
    IF isSwappedFile(f) /\ Len(f[1]) > Len(SWAP_MARKER)
    THEN Some(SubSeq(f[1], Len(SWAP_MARKER) + 2, Len(f[1])))
    ELSE b
Restored(b, f) == b

\* rollbackSoul, line 67: the backup slot after the copy (the source of a copy is kept)
BackupAfterRollback_Consumed(b) == None
BackupAfterRollback(b) == b

NextShape(op) ==
    CASE op = "swap" /\ shape \in {"init", "swaps"} -> "swaps"
      [] op = "rollback" /\ shape = "swaps" -> "swapsThenRollback"
      [] OTHER -> "other"

Log(name, arg, ret) ==
    [ name |-> name, arg |-> arg, ret |-> ret,
      preFile |-> soulFile, preBackup |-> backupFile, prev |-> last.name,
      prevRet |-> last.ret ]

\* export function swapSoul(newContent): { backedUp }, on the files and the
\* history of calls
SwapFiles(newContent) ==
    LET backedUp == ShouldBackup(soulFile) IN
    /\ nOps < MaxOps
    /\ backupDir' = (backupDir \/ backedUp)
    /\ backupFile' = IF backedUp THEN soulFile ELSE backupFile
    /\ backupWrites' = IF backedUp THEN backupWrites + 1 ELSE backupWrites
    /\ soulDir' = TRUE
    /\ soulFile' = Some(Marked(newContent))
    /\ nOps' = nOps + 1
    /\ shape' = NextShape("swap")
    /\ last' = Log("swap", Some(newContent), backedUp)
    /\ UNCHANGED c0

swapSoul(newContent) ==
    /\ UNCHANGED <<regVars, cliVars>>
    /\ SwapFiles(newContent)

\* swapSoul run by separate processes, one system call at a time: the check
\* of line 50, the copy of lines 51-53, the write of lines 56-59.
Procs == { 1, 2 }

NotStarted ==
    [ pc |-> "idle", newContent |-> None, backedUp |-> FALSE, seen |-> None, late |-> FALSE ]

\* Some other process has already written the active file.
OtherWrote(p) == \E q \in Procs \ { p } : procs[q].pc = "done"

\* swapSoul, line 50: if (!isSwapped() && existsSync(p)), on the file as it is
\* now
swapCheck(p, newContent) ==
    /\ UNCHANGED <<regVars, cache, cmd>>
    /\ procs[p].pc = "idle"
    /\ procs' = [ procs EXCEPT ![p] =
                    [ pc |-> IF ShouldBackup(soulFile) THEN "checked" ELSE "copied",
                      newContent |-> Some(newContent),
                      backedUp |-> ShouldBackup(soulFile), seen |-> soulFile,
                      late |-> FALSE ] ]
    /\ UNCHANGED swapVars

\* swapSoul, line 52: copyFileSync(p, backupPath()) copies what the file holds
\* when the copy runs
CopySource_AtCheck(p) == procs[p].seen
CopySource(p) == soulFile

\* swapSoul, lines 51-53: mkdirSync(backupDir()), copyFileSync(p, backupPath())
swapCopy(p) ==
    /\ UNCHANGED <<regVars, cache, cmd>>
    /\ procs[p].pc = "checked"
    /\ procs' = [ procs EXCEPT ![p].pc = "copied", ![p].late = OtherWrote(p) ]
    /\ backupDir' = TRUE
    /\ backupFile' = CopySource(p)
    /\ backupWrites' = backupWrites + 1
    /\ UNCHANGED <<soulFile, soulDir, c0, nOps, shape, last>>

\* swapSoul, lines 56-59: mkdirSync(dirname(p)), writeFileSync(p, marked)
swapWrite(p) ==
    /\ UNCHANGED <<regVars, cache, cmd>>
    /\ procs[p].pc = "copied"
    /\ procs' = [ procs EXCEPT ![p].pc = "done" ]
    /\ soulDir' = TRUE
    /\ soulFile' = Some(Marked(procs[p].newContent[1]))
    /\ UNCHANGED <<backupFile, backupDir, backupWrites, c0, nOps, shape, last>>

\* rollbackSoul, line 65: the condition under which rollback gives up
RollbackRefuses_ChecksActive(b, f) == ~existsSync(f)
RollbackRefuses(b, f) == ~existsSync(b)

\* rollbackSoul as a function of the two files: its result and the files after it
rollbackResult(b, f) ==
    IF RollbackRefuses(b, f)
    THEN [ ret |-> FALSE, soul |-> f, backup |-> b ]
    ELSE [ ret |-> TRUE, soul |-> Restored(b, f), backup |-> BackupAfterRollback(b) ]

\* export function rollbackSoul(): boolean
rollbackSoul ==
    LET r == rollbackResult(backupFile, soulFile) IN
    /\ UNCHANGED <<regVars, cliVars>>
    /\ nOps < MaxOps
    /\ soulFile' = r.soul
    /\ backupFile' = r.backup
    /\ last' = Log("rollback", None, r.ret)
    /\ nOps' = nOps + 1
    /\ shape' = NextShape("rollback")
    /\ UNCHANGED <<soulDir, backupDir, c0, backupWrites>>

\* index.ts, the exorcise command: fail() prints and calls process.exit(1)
exorcise ==
    LET r == rollbackResult(backupFile, soulFile) IN
    /\ UNCHANGED <<regVars, cliVars>>
    /\ nOps < MaxOps
    /\ IF ~hasBackup
       THEN /\ last' = Log("exorcise", None, "exit 1: No backup found")
            /\ UNCHANGED <<soulFile, backupFile>>
       ELSE /\ soulFile' = r.soul
            /\ backupFile' = r.backup
            /\ last' = Log("exorcise", None,
                           IF r.ret THEN "restored" ELSE "exit 1: Failed to exorcise")
    /\ nOps' = nOps + 1
    /\ shape' = "other"
    /\ UNCHANGED <<soulDir, backupDir, c0, backupWrites>>

----------------------------------------------------------------------------
(* The registry's database: sqlite.ts (schema), routes/souls.ts (statements) *)

Users == 1..NumUsers

\* A row of table souls as it is inserted: rating_avg REAL NOT NULL DEFAULT 0,
\* rating_count and downloads_count INTEGER NOT NULL DEFAULT 0. rating_avg is
\* held in tenths (4.5 is 45): the handler only ever stores Math.round(x) / 10.
\* tags is the JSON text of the array of tags ('[]' as inserted);
\* description is absent or a text; updated_at is the time of the last
\* statement that set it, counted in requests received (0: before the first).
SoulRow(id, slug, label, name, user_id) ==
    [ id |-> id, slug |-> slug, label |-> label, name |-> name, user_id |-> user_id,
      rating_avg |-> 0, rating_count |-> 0, downloads_count |-> 0,
      description |-> None, updated_at |-> 0, tags |-> <<"[", "]">> ]

\* SELECT * FROM souls WHERE slug = ? OR label = ?, args [slug, slug]
FindSoul(tbl, ident) == { s \in tbl : s.slug = ident \/ s.label = ident }

\* The rows of soul_ratings that conflict with (soul_id, user_id)
Conflicting(rt, soul_id, user_id) ==
    { r \in rt : r.soul_id = soul_id /\ r.user_id = user_id }

\* INSERT INTO soul_ratings (soul_id, user_id, rating) VALUES (?, ?, ?)
\*   ON CONFLICT(soul_id, user_id) DO UPDATE SET rating = excluded.rating
\* (the row's own id and created_at are read by no statement and left out)
Upsert_InsertOnly(rt, soul_id, user_id, rating) ==
    rt \cup { [ soul_id |-> soul_id, user_id |-> user_id, rating |-> rating ] }
Upsert(rt, soul_id, user_id, rating) ==
    IF Conflicting(rt, soul_id, user_id) = {}
    THEN rt \cup { [ soul_id |-> soul_id, user_id |-> user_id, rating |-> rating ] }
    ELSE { IF r \in Conflicting(rt, soul_id, user_id)
           THEN [ r EXCEPT !.rating = rating ] ELSE r : r \in rt }

RECURSIVE SumRatings(_)
SumRatings(rows) ==
    IF rows = {} THEN 0
    ELSE LET r == CHOOSE x \in rows : TRUE IN r.rating + SumRatings(rows \ {r})

\* SELECT AVG(rating) as avg, COUNT(*) as count FROM soul_ratings WHERE soul_id = ?
\* AVG is the quotient sum / count (NULL over no rows); it is kept as the pair.
Stats(rt, soul_id) ==
    LET rows == { r \in rt : r.soul_id = soul_id } IN
    [ sum |-> SumRatings(rows), count |-> Cardinality(rows) ]

\* const avg = Math.round(stats.avg * 10) / 10, in tenths. Math.round(x) is
\* floor(x + 0.5); Math.round(null * 10) is 0. The quotient is exact here, a
\* double in the code: over at most five rows stats.avg * 10 is either exactly
\* a half-integer (halves and quarters are exact doubles) or at least 1/6 away
\* from one, so the double rounds as the exact value does.
RoundAvg_Truncates(sum, count) ==
    IF count = 0 THEN 0 ELSE (10 * sum) \div count
RoundAvg(sum, count) ==
    IF count = 0 THEN 0 ELSE (20 * sum + count) \div (2 * count)

\* UPDATE souls SET rating_avg = ?, rating_count = ? WHERE id = ?
WriteBack(tbl, avg, count, id) ==
    { IF s.id = id THEN [ s EXCEPT !.rating_avg = avg, !.rating_count = count ] ELSE s
      : s \in tbl }

----------------------------------------------------------------------------
(* POST /:slug/rate *)

\* body.rating as the JSON body gives it: absent, a number (in tenths, so that
\* 2.5 is 25) or a string holding a number.
RatingInputs ==
    { [ kind |-> "undefined", tenths |-> 0 ], [ kind |-> "string", tenths |-> 20 ] }
    \cup { [ kind |-> "number", tenths |-> t ] : t \in {-10, 0, 10, 20, 25, 50, 60} }

\* if (!body.rating || body.rating < 1 || body.rating > 5 || !Number.isInteger(body.rating))
RatingRejected_NoIntegerCheck(rating) ==
    \/ rating.kind = "undefined"
    \/ rating.tenths = 0
    \/ rating.tenths < 10
    \/ rating.tenths > 50
RatingRejected(rating) ==
    \/ rating.kind = "undefined"
    \/ rating.tenths = 0
    \/ rating.tenths < 10
    \/ rating.tenths > 50
    \/ ~(rating.kind = "number" /\ rating.tenths % 10 = 0)

\* The value bound to the INSERT's third parameter
RatingValue(rating) == rating.tenths \div 10

\* the handler's local soul before the lookup has answered
NoSoul == 0

Response(status, user, ident, rating, soul_id, avg, count, hadRow, preCount) ==
    [ status |-> status, user |-> user, ident |-> ident, rating |-> rating,
      soul_id |-> soul_id, rating_avg |-> avg, rating_count |-> count,
      hadRow |-> hadRow, preCount |-> preCount ]

Rejected(status, user, ident, rating) ==
    Response(status, user, ident, rating, NoSoul, 0, 0, FALSE, 0)

\* The handler run from its first statement to its response with no other
\* request in between.
rate(user, ident, rating) ==
    /\ UNCHANGED <<swapVars, cliVars, concVars, storage, soulSeq, uploadRun>>
    /\ nReqs < MaxReqs
    /\ reqs = {}
    /\ nReqs' = nReqs + 1
    /\ UNCHANGED <<reqs, overlapped>>
    /\ IF RatingRejected(rating)
       THEN /\ resp' = Rejected(400, user, ident, rating)
            /\ UNCHANGED dbVars
       ELSE IF FindSoul(souls, ident) = {}
       THEN /\ resp' = Rejected(404, user, ident, rating)
            /\ UNCHANGED dbVars
       ELSE \E soul \in FindSoul(souls, ident) :  \* rows[0]
            LET rt == Upsert(ratings, soul.id, user, RatingValue(rating))
                stats == Stats(rt, soul.id)
                avg == RoundAvg(stats.sum, stats.count)
            IN /\ ratings' = rt
               /\ souls' = WriteBack(souls, avg, stats.count, soul.id)
               /\ resp' = Response(200, user, ident, rating, soul.id, avg, stats.count,
                                   Conflicting(ratings, soul.id, user) # {},
                                   soul.rating_count)

\* The same handler one database statement at a time: a request in flight holds
\* its position (pc) and the handler's locals.
Request(id, user, ident, rating, pc, soul_id, avg, count, hadRow, preCount) ==
    [ id |-> id, user |-> user, ident |-> ident, rating |-> rating, pc |-> pc,
      soul_id |-> soul_id, avg |-> avg, count |-> count,
      hadRow |-> hadRow, preCount |-> preCount ]

Advance(r, r2) == (reqs \ {r}) \cup {r2}

\* lines 455-462: the body is read and validated
rateReceive(user, ident, rating) ==
    /\ UNCHANGED <<swapVars, cliVars, concVars, storage, soulSeq, uploadRun>>
    /\ nReqs < MaxConcReqs
    /\ nReqs' = nReqs + 1
    /\ overlapped' = (overlapped \/ reqs # {})
    /\ UNCHANGED dbVars
    /\ IF RatingRejected(rating)
       THEN /\ resp' = Rejected(400, user, ident, rating)
            /\ UNCHANGED reqs
       ELSE /\ reqs' = reqs \cup
                 { Request(nReqs + 1, user, ident, rating, "lookup", NoSoul, 0, 0, FALSE, 0) }
            /\ UNCHANGED resp

\* lines 464-471: the document is looked up
rateLookup(r) ==
    /\ UNCHANGED <<swapVars, cliVars, concVars, storage, soulSeq, uploadRun>>
    /\ r.pc = "lookup"
    /\ UNCHANGED <<dbVars, nReqs, overlapped>>
    /\ IF FindSoul(souls, r.ident) = {}
       THEN /\ resp' = Rejected(404, r.user, r.ident, r.rating)
            /\ reqs' = reqs \ {r}
       ELSE \E soul \in FindSoul(souls, r.ident) :
            /\ reqs' = Advance(r, [ r EXCEPT !.pc = "upsert", !.soul_id = soul.id,
                                             !.preCount = soul.rating_count ])
            /\ UNCHANGED resp

\* lines 473-476: the rating row is upserted
rateUpsert(r) ==
    /\ UNCHANGED <<swapVars, cliVars, concVars, storage, soulSeq, uploadRun>>
    /\ r.pc = "upsert"
    /\ ratings' = Upsert(ratings, r.soul_id, r.user, RatingValue(r.rating))
    /\ reqs' = Advance(r, [ r EXCEPT !.pc = "stats",
                                     !.hadRow = (Conflicting(ratings, r.soul_id, r.user) # {}) ])
    /\ UNCHANGED <<souls, nReqs, overlapped, resp>>

\* lines 478-484: the aggregate is read and rounded
rateStats(r) ==
    /\ UNCHANGED <<swapVars, cliVars, concVars, storage, soulSeq, uploadRun>>
    /\ r.pc = "stats"
    /\ LET stats == Stats(ratings, r.soul_id) IN
       reqs' = Advance(r, [ r EXCEPT !.pc = "write",
                                     !.avg = RoundAvg(stats.sum, stats.count),
                                     !.count = stats.count ])
    /\ UNCHANGED <<dbVars, nReqs, overlapped, resp>>

\* lines 485-490: the document's cached statistics are written and returned
rateWrite(r) ==
    /\ UNCHANGED <<swapVars, cliVars, concVars, storage, soulSeq, uploadRun>>
    /\ r.pc = "write"
    /\ souls' = WriteBack(souls, r.avg, r.count, r.soul_id)
    /\ reqs' = reqs \ {r}
    /\ resp' = Response(200, r.user, r.ident, r.rating, r.soul_id, r.avg, r.count,
                        r.hadRow, r.preCount)
    /\ UNCHANGED <<ratings, nReqs, overlapped>>

\* POST /:slug/download, line 296: UPDATE souls SET downloads_count =
\* downloads_count + 1 WHERE slug = ? OR label = ?, args [slug, slug]
Downloaded_SlugOnly(tbl, ident) ==
    { IF s.slug = ident THEN [ s EXCEPT !.downloads_count = @ + 1 ] ELSE s : s \in tbl }
Downloaded(tbl, ident) ==
    { IF s \in FindSoul(tbl, ident) THEN [ s EXCEPT !.downloads_count = @ + 1 ] ELSE s
      : s \in tbl }

\* app.post("/:slug/download"): one statement, then { ok: true }
download(ident) ==
    /\ UNCHANGED <<swapVars, cliVars, ratings, reqs, resp, storage, soulSeq, uploadRun>>
    /\ nReqs' = nReqs + 1
    /\ overlapped' = (overlapped \/ reqs # {})
    /\ souls' = Downloaded(souls, ident)
    /\ done' = done \cup { [ id |-> nReqs + 1, route |-> "download", ident |-> ident,
                              ok |-> TRUE ] }

\* The identifiers a rate request names: a slug, a label, and one no document has.
SlugOne == <<"K", "1">>
SlugTwo == <<"K", "2">>
LabelOne == <<"a">>
LabelTwo == <<"b">>
RateIdents == { SlugOne, LabelOne, SlugTwo, <<"n", "o">> }

----------------------------------------------------------------------------
(* sqlite.ts: slugify, generateLabel *)

ToLower_Identity(c) == c

\* String.prototype.toLowerCase on one character
ToLower(c) ==
    CASE c = "A" -> "a"
      [] c = "B" -> "b"
      [] c = "K" -> "k"
      [] OTHER -> c

toLowerCase(str) == [ i \in 1..Len(str) |-> ToLower(str[i]) ]

\* the class [a-z0-9] over the characters the model draws
IsAlnum(c) == c \in { "a", "b", "k", "0", "1", "2", "3", "4", "5", "6", "7", "8", "9" }

\* .replace(/[^a-z0-9]+/g, "-"): every maximal run of other characters becomes one hyphen
RECURSIVE ReplaceRuns(_, _)
ReplaceRuns(str, inRun) ==
    IF str = << >> THEN << >>
    ELSE IF IsAlnum(Head(str)) THEN <<Head(str)>> \o ReplaceRuns(Tail(str), FALSE)
    ELSE IF inRun THEN ReplaceRuns(Tail(str), TRUE)
    ELSE <<"-">> \o ReplaceRuns(Tail(str), TRUE)

\* .replace(/^-|-$/g, ""): a hyphen at the start and a hyphen at the end are removed
TrimHyphens(str) ==
    LET front == IF str # << >> /\ Head(str) = "-" THEN Tail(str) ELSE str
    IN IF front # << >> /\ front[Len(front)] = "-"
       THEN SubSeq(front, 1, Len(front) - 1) ELSE front

\* export function slugify(name)
slugify(name) == TrimHyphens(ReplaceRuns(toLowerCase(name), FALSE))

Digit(d) == <<"0", "1", "2", "3", "4", "5", "6", "7", "8", "9">>[d + 1]

\* the decimal digits of a number, as a template literal prints it
RECURSIVE NumberToString(_)
NumberToString(n) ==
    IF n < 10 THEN <<Digit(n)>>
    ELSE NumberToString(n \div 10) \o <<Digit(n % 10)>>

\* `${base}-${suffix}`
Suffixed(base, suffix) == base \o <<"-">> \o NumberToString(suffix)

\* label LIKE `${base}-%`: LIKE compares ASCII letters without case, % matches any
\* rest; base holds neither % nor _
LikePrefix(label, prefix) ==
    /\ Len(label) >= Len(prefix)
    /\ \A i \in 1..Len(prefix) : ToLower(label[i]) = ToLower(prefix[i])

\* SELECT label FROM souls WHERE label = ? OR label LIKE ?, as the Set taken
TakenLabels(tbl, base) ==
    { s.label : s \in { x \in tbl : x.label = base \/ LikePrefix(x.label, base \o <<"-">>) } }

\* let suffix = 2; while (taken.has(`${base}-${suffix}`)) suffix++
RECURSIVE Probe(_, _, _)
Probe(base, taken, suffix) ==
    IF Suffixed(base, suffix) \in taken THEN Probe(base, taken, suffix + 1)
    ELSE Suffixed(base, suffix)

\* let suffix = 2
FirstSuffix_One == 2 - 1
FirstSuffix == 2

\* export async function generateLabel(db, name)
generateLabel(tbl, name) ==
    LET base == slugify(name)
        taken == TakenLabels(tbl, base)
    IN IF base \notin taken THEN base ELSE Probe(base, taken, FirstSuffix)

----------------------------------------------------------------------------
(* POST / (upload) and DELETE /:slug *)

\* The names summarize() gives a document (a model's answer or fallbackName).
Names == { <<"A", " ", "b">>, <<"a", "-", "-", "B", "!">>, <<"a", " ", "b", " ", "3">>, <<"!", "!">> }

SlugOf(i) == <<"K", Digit(i)>>
AllSlugs == { SlugOf(i) : i \in 1..NumSlugs }

\* nanoid(8): a random id. All ids no document, no stored object and no upload
\* in flight has are alike, so one of them stands for all; an id already used
\* can come back too.
UsedSlugs ==
    { s.slug : s \in souls } \cup DOMAIN storage
    \cup { r.slug[1] : r \in { x \in reqs : x.route = "upload" } }
nanoid ==
    LET unused == { i \in 1..NumSlugs : SlugOf(i) \notin UsedSlugs } IN
    { SlugOf(i) : i \in { j \in unused : \A j2 \in unused : j <= j2 } } \cup UsedSlugs

\* storage.saveSoul(slug, content)
saveSoul(st, slug, content) ==
    [ k \in DOMAIN st \cup {slug} |-> IF k = slug THEN content ELSE st[k] ]

\* storage.deleteSoul(slug)
deleteSoul(st, slug) == [ k \in DOMAIN st \ {slug} |-> st[k] ]

\* The outcomes of storage.saveSoul(slug, content): the content is stored, or
\* it is not and the store says so (S3Storage: the PUT is answered non-2xx;
\* LocalStorage: mkdirSync or writeFileSync throws).
StoreOutcomes == { "stored", "refused" }

\* S3Storage.saveSoul, lines 94-97: if (!res.ok) { ...; throw new Error(...) }
SaveThrows_Never(put) == FALSE
SaveThrows(put) == put # "stored"

\* The store after saveSoul(slug, content) with outcome put
StoreAfter(st, slug, content, put) ==
    IF put = "stored" THEN saveSoul(st, slug, content) ELSE st

\* The UNIQUE constraints of table souls (slug, label) refuse the row
InsertRefused_SlugOnly(tbl, slug, label) ==
    \E s \in tbl : s.slug = slug
InsertRefused(tbl, slug, label) ==
    \E s \in tbl : s.slug = slug \/ s.label = label

\* The UNIQUE constraint on label refuses UPDATE souls SET label = ? WHERE id = ?
UpdateRefused_Never(tbl, id, label) == FALSE
UpdateRefused(tbl, id, label) ==
    \E s \in tbl : s.id # id /\ s.label = label

\* A request handled to its end: the route, the status answered (500 when the
\* handler threw), the requester, the identifier in the path, the body, and
\* what the handler worked with. put is
\* the outcome of the storage write it made ("none" when it made none).
Reply(route, status, user, ident, body, name, slug, label, put) ==
    [ route |-> route, status |-> status, user |-> user, ident |-> ident, body |-> body,
      name |-> name, slug |-> slug, label |-> label, put |-> put ]

\* A request's JSON body: each field absent (None) or a text
Body(content, name, label, description) ==
    [ content |-> content, name |-> name, label |-> label, description |-> description ]

NoBody == Body(None, None, None, None)

\* !body.x: the field is absent or the empty string
Falsy(opt) == opt = None \/ opt[1] = << >>

NoRun == [ ok |-> TRUE, name |-> None, n |-> 0 ]

RunAfter(status, name) ==
    IF status = 201 /\ uploadRun.ok /\ uploadRun.name \in {None, Some(name)}
    THEN [ ok |-> TRUE, name |-> Some(name), n |-> uploadRun.n + 1 ]
    ELSE [ ok |-> FALSE, name |-> None, n |-> 0 ]

\* the description summarize() gives a document
Summary == <<"s">>

\* The row INSERT INTO souls (slug, label, name, user_id, description, tags)
\* adds at time now
NewRow(id, slug, label, name, user_id, now) ==
    [ SoulRow(id, slug, label, name, user_id)
        EXCEPT !.description = Some(Summary), !.updated_at = now ]

\* app.post("/", requireAuth, ...): content is body.content, name what
\* summarize(content) returned, slug what nanoid(8) returned, put the outcome
\* of storage.saveSoul.
upload(user, content, name, slug, put) ==
    /\ UNCHANGED <<swapVars, cliVars, concVars, ratings, reqs, overlapped>>
    /\ nReqs < MaxReqs
    /\ reqs = {}
    /\ nReqs' = nReqs + 1
    /\ IF content = << >>
       THEN /\ resp' = Reply("upload", 400, user, None, Body(Some(content), None, None, None), None, None, None, "none")
            /\ uploadRun' = RunAfter(400, name)
            /\ UNCHANGED <<souls, storage, soulSeq>>
       ELSE LET label == generateLabel(souls, name) IN
            /\ storage' = StoreAfter(storage, slug, content, put)
            /\ IF SaveThrows(put) \/ InsertRefused(souls, slug, label)
               THEN /\ resp' = Reply("upload", 500, user, None, Body(Some(content), None, None, None),
                                   Some(name), Some(slug), Some(label), put)
                    /\ uploadRun' = RunAfter(500, name)
                    /\ UNCHANGED <<souls, soulSeq>>
               ELSE /\ souls' = souls \cup
                         { NewRow(soulSeq + 1, slug, label, name, user, nReqs + 1) }
                    /\ soulSeq' = soulSeq + 1
                    /\ resp' = Reply("upload", 201, user, None, Body(Some(content), None, None, None),
                                   Some(name), Some(slug), Some(label), put)
                    /\ uploadRun' = RunAfter(201, name)

\* if ((soul.user_id as number) !== user.id) return c.json({ error: "Forbidden" }, 403)
Forbidden_Never(soul, user) == FALSE
Forbidden(soul, user) == soul.user_id # user

\* app.delete("/:slug", requireAuth, ...); no document of the model has an image
delete(user, ident) ==
    /\ UNCHANGED <<swapVars, cliVars, concVars, reqs, overlapped, soulSeq>>
    /\ nReqs < MaxReqs
    /\ reqs = {}
    /\ nReqs' = nReqs + 1
    /\ uploadRun' = RunAfter(0, None)
    /\ IF FindSoul(souls, ident) = {}
       THEN /\ resp' = Reply("delete", 404, user, Some(ident), NoBody, None, None, None, "none")
            /\ UNCHANGED <<souls, ratings, storage>>
       ELSE \E soul \in FindSoul(souls, ident) :  \* rows[0]
            IF Forbidden(soul, user)
            THEN /\ resp' = Reply("delete", 403, user, Some(ident), NoBody,
                                   None, Some(soul.slug), Some(soul.label), "none")
                 /\ UNCHANGED <<souls, ratings, storage>>
            ELSE /\ storage' = deleteSoul(storage, soul.slug)
                 /\ souls' = souls \ {soul}
                 /\ ratings' = { r \in ratings : r.soul_id # soul.id }  \* ON DELETE CASCADE
                 /\ resp' = Reply("delete", 200, user, Some(ident), NoBody,
                                   None, Some(soul.slug), Some(soul.label), "none")

\* SELECT id FROM souls WHERE label = ? AND id != ?, args [body.label, soul.id]
LabelTaken(tbl, label, id) == \E s \in tbl : s.label = label /\ s.id # id

\* The label PATCH sets: "label = ?" is pushed for body.name (a label minted
\* from the name) and again for body.label; of two assignments to one column
\* in an UPDATE the rightmost is the one SQLite makes.
PatchedLabel(soul, body, minted) ==
    IF ~Falsy(body.label) THEN body.label[1]
    ELSE IF ~Falsy(body.name) THEN minted
    ELSE soul.label

\* The row after UPDATE souls SET ... WHERE id = ? at time now
Patched(soul, body, label, now) ==
    [ soul EXCEPT !.name = IF ~Falsy(body.name) THEN body.name[1] ELSE @,
                  !.label = label,
                  !.description = IF body.description # None THEN body.description ELSE @,
                  !.updated_at = now ]

\* app.patch("/:slug", requireAuth, ...)
patch(user, ident, body) ==
    /\ UNCHANGED <<swapVars, cliVars, concVars, ratings, reqs, overlapped, storage, soulSeq>>
    /\ nReqs < MaxReqs
    /\ reqs = {}
    /\ nReqs' = nReqs + 1
    /\ uploadRun' = RunAfter(0, None)
    /\ IF Falsy(body.name) /\ Falsy(body.description) /\ Falsy(body.label)
       THEN /\ resp' = Reply("patch", 400, user, Some(ident), body, None, None, None, "none")
            /\ UNCHANGED souls
       ELSE IF FindSoul(souls, ident) = {}
       THEN /\ resp' = Reply("patch", 404, user, Some(ident), body, None, None, None, "none")
            /\ UNCHANGED souls
       ELSE \E soul \in FindSoul(souls, ident) :  \* rows[0]
            LET minted == IF ~Falsy(body.name) THEN generateLabel(souls, body.name[1])
                          ELSE soul.label
                label == PatchedLabel(soul, body, minted)
                Answer(status) == Reply("patch", status, user, Some(ident), body,
                                        body.name, Some(soul.slug), Some(label), "none")
            IN IF Forbidden(soul, user)
               THEN /\ resp' = Answer(403)
                    /\ UNCHANGED souls
               ELSE IF ~Falsy(body.label) /\ LabelTaken(souls, body.label[1], soul.id)
               THEN /\ resp' = Answer(409)
                    /\ UNCHANGED souls
               ELSE IF UpdateRefused(souls, soul.id, label)
               THEN /\ resp' = Answer(500)
                    /\ UNCHANGED souls
               ELSE /\ souls' = (souls \ {soul}) \cup { Patched(soul, body, label, nReqs + 1) }
                    /\ resp' = Answer(200)

\* app.put("/:slug/content", requireAuth, ...)
putContent(user, ident, content, put) ==
    /\ UNCHANGED <<swapVars, cliVars, concVars, ratings, reqs, overlapped, soulSeq>>
    /\ nReqs < MaxReqs
    /\ reqs = {}
    /\ nReqs' = nReqs + 1
    /\ uploadRun' = RunAfter(0, None)
    /\ LET body == Body(Some(content), None, None, None) IN
       IF content = << >>
       THEN /\ resp' = Reply("content", 400, user, Some(ident), body, None, None, None, "none")
            /\ UNCHANGED <<souls, storage>>
       ELSE IF FindSoul(souls, ident) = {}
       THEN /\ resp' = Reply("content", 404, user, Some(ident), body, None, None, None, "none")
            /\ UNCHANGED <<souls, storage>>
       ELSE \E soul \in FindSoul(souls, ident) :  \* rows[0]
            LET Answer(status, outcome) ==
                    Reply("content", status, user, Some(ident), body,
                          None, Some(soul.slug), Some(soul.label), outcome)
            IN IF Forbidden(soul, user)
               THEN /\ resp' = Answer(403, "none")
                    /\ UNCHANGED <<souls, storage>>
               ELSE /\ storage' = StoreAfter(storage, soul.slug, content, put)
                    /\ IF SaveThrows(put)
                       THEN /\ resp' = Answer(500, put)
                            /\ UNCHANGED souls
                       ELSE /\ souls' = (souls \ {soul}) \cup
                                 { [ soul EXCEPT !.updated_at = nReqs + 1 ] }
                            /\ resp' = Answer(200, put)

----------------------------------------------------------------------------
(* GET / (list and search) *)

\* users.github_username of the user with that id
github_username(user_id) == <<"u", Digit(user_id)>>

\* text LIKE '%pattern%': SQLite's LIKE does not distinguish the case of ASCII
\* letters, and NULL LIKE ... is not true
Like(text, pattern) ==
    /\ text # None
    /\ \E i \in 0..(Len(text[1]) - Len(pattern)) :
          toLowerCase(SubSeq(text[1], i + 1, i + Len(pattern))) = toLowerCase(pattern)

\* GET /, lines 214-223: the WHERE clause; tag wins over search, an empty
\* query value counts as absent
Where(s, tag, search) ==
    IF ~Falsy(tag) THEN Like(Some(s.tags), <<"\"">> \o tag[1] \o <<"\"">>)
    ELSE IF ~Falsy(search)
    THEN \/ Like(Some(s.name), search[1])
         \/ Like(s.description, search[1])
         \/ Like(Some(github_username(s.user_id)), search[1])
    ELSE TRUE

\* GET /, lines 225-232: the ORDER BY clause as the rows it puts strictly
\* before others. sort=top (a score in logarithms) is not drawn.
Precedes_DownloadsOnly(a, b, sort) ==
    IF sort = Some("popular") THEN a.downloads_count > b.downloads_count
    ELSE a.updated_at > b.updated_at
Precedes(a, b, sort) ==
    IF sort = Some("popular")
    THEN \/ a.downloads_count > b.downloads_count
         \/ a.downloads_count = b.downloads_count /\ a.rating_count > b.rating_count
    ELSE a.updated_at > b.updated_at

\* The orders in which the database may return rows under the ORDER BY: rows
\* the clause does not tell apart come in any order.
Orderings(rows, sort) ==
    { l \in [ 1..Cardinality(rows) -> rows ] :
        /\ \A i, j \in 1..Cardinality(rows) : i # j => l[i] # l[j]
        /\ \A i, j \in 1..Cardinality(rows) : i < j => ~Precedes(l[j], l[i], sort) }

\* Math.max and Math.min on integers
Max(a, b) == IF a >= b THEN a ELSE b
Min(a, b) == IF a <= b THEN a ELSE b

\* parseInt(c.req.query(...) ?? fallback, 10) of a query value that is absent
\* or the decimal text of an integer
parseInt(query, fallback) == IF query = None THEN fallback ELSE query[1]

\* GET /, line 210
Page(page) == Max(1, parseInt(page, 1))

\* GET /, line 211
DefaultLimit == 20
MaxLimit == 100
Limit(limit) == Min(MaxLimit, Max(1, parseInt(limit, DefaultLimit)))

\* GET /, line 212
Offset_PageTimesLimit(page, limit) == page * limit
Offset(page, limit) == (page - 1) * limit

\* LIMIT ? OFFSET ? on the ordered rows
Slice(l, limit, offset) ==
    IF offset >= Len(l) THEN << >> ELSE SubSeq(l, offset + 1, Min(Len(l), offset + limit))

\* Math.ceil(total / limit) for total >= 0, limit >= 1
Ceil(total, limit) == (total + limit - 1) \div limit

\* app.get("/"): the count and the page are read, the page with its
\* pagination is answered. tbl is the table as the request found it.
list(tag, search, sort, page, limit) ==
    LET matching == { s \in souls : Where(s, tag, search) }
        total == Cardinality(matching)
    IN /\ UNCHANGED <<swapVars, cliVars, concVars, dbVars, reqs, overlapped, storage, soulSeq,
                      uploadRun>>
       /\ reqs = {}
       /\ nReqs' = nReqs + 1
       /\ \E l \in Orderings(matching, sort) :
             resp' = [ route |-> "list", status |-> 200, tag |-> tag, search |-> search,
                       sort |-> sort, query |-> [ page |-> page, limit |-> limit ],
                       tbl |-> souls,
                       data |-> Slice(l, Limit(limit), Offset(Page(page), Limit(limit))),
                       pagination |-> [ page |-> Page(page), limit |-> Limit(limit),
                                        total |-> total,
                                        totalPages |-> Ceil(total, Limit(limit)) ] ]

----------------------------------------------------------------------------
(* POST /, PATCH /:slug and DELETE /:slug one statement at a time *)

\* A request in flight: its position in the handler (pc) and the handler's
\* locals. seen holds the ids of the requests that had ended when it read the
\* labels of table souls.
Flight(id, route, user, ident, body, name, slug, pc, soul_id, label, seen) ==
    [ id |-> id, route |-> route, user |-> user, ident |-> ident, body |-> body,
      name |-> name, slug |-> slug, pc |-> pc, soul_id |-> soul_id, label |-> label,
      seen |-> seen ]

\* A request that has ended: its answer, the outcome of its storage write,
\* whether its last statement changed table souls, whether a row held its slug
\* when an INSERT was refused, and the ids of the requests that had ended
\* before it.
Ended(r, status, put, wrote, slugHeld) ==
    [ id |-> r.id, route |-> r.route, user |-> r.user, ident |-> r.ident, body |-> r.body,
      name |-> r.name, slug |-> r.slug, soul_id |-> r.soul_id, label |-> r.label,
      seen |-> r.seen, status |-> status, put |-> put, wrote |-> wrote,
      slugHeld |-> slugHeld, before |-> { d.id : d \in done } ]

EndedIds == { d.id : d \in done }

\* POST /, lines 303-313: the body is validated, summarize and nanoid answer,
\* generateLabel reads the labels
uploadLabel(user, content, name, slug) ==
    /\ UNCHANGED <<swapVars, cliVars, dbVars, overlapped, resp, storage, soulSeq, uploadRun>>
    /\ nReqs < MaxConcReqs
    /\ nReqs' = nReqs + 1
    /\ LET r == Flight(nReqs + 1, "upload", user, None, Body(Some(content), None, None, None),
                       Some(name), Some(slug), "save", NoSoul,
                       Some(generateLabel(souls, name)), EndedIds)
       IN IF content = << >>
          THEN /\ done' = done \cup { Ended([ r EXCEPT !.label = None ], 400, "none", FALSE, FALSE) }
               /\ UNCHANGED reqs
          ELSE /\ reqs' = reqs \cup { r }
               /\ UNCHANGED done

\* POST /, line 316: await storage.saveSoul(slug, body.content)
uploadSave(r, put) ==
    /\ UNCHANGED <<swapVars, cliVars, dbVars, nReqs, overlapped, resp, soulSeq, uploadRun>>
    /\ r.route = "upload" /\ r.pc = "save"
    /\ storage' = StoreAfter(storage, r.slug[1], r.body.content[1], put)
    /\ IF SaveThrows(put)
       THEN /\ reqs' = reqs \ {r}
            /\ done' = done \cup { Ended(r, 500, put, FALSE, FALSE) }
       ELSE /\ reqs' = Advance(r, [ r EXCEPT !.pc = "insert" ])
            /\ UNCHANGED done

\* POST /, lines 318-323: the INSERT and the answer
uploadInsert(r) ==
    /\ UNCHANGED <<swapVars, cliVars, ratings, nReqs, overlapped, resp, storage, uploadRun>>
    /\ r.route = "upload" /\ r.pc = "insert"
    /\ reqs' = reqs \ {r}
    /\ IF InsertRefused(souls, r.slug[1], r.label[1])
       THEN /\ done' = done \cup { Ended(r, 500, "stored", FALSE,
                                         \E s \in souls : s.slug = r.slug[1]) }
            /\ UNCHANGED <<souls, soulSeq>>
       ELSE /\ souls' = souls \cup
                 { NewRow(soulSeq + 1, r.slug[1], r.label[1], r.name[1], r.user, nReqs) }
            /\ soulSeq' = soulSeq + 1
            /\ done' = done \cup { Ended([ r EXCEPT !.soul_id = soulSeq + 1 ],
                                         201, "stored", TRUE, FALSE) }

\* PATCH /:slug, lines 326-347: the body is validated and the document looked up
patchLookup(user, ident, body) ==
    /\ UNCHANGED <<swapVars, cliVars, dbVars, overlapped, resp, storage, soulSeq, uploadRun>>
    /\ nReqs < MaxConcReqs
    /\ nReqs' = nReqs + 1
    /\ LET r == Flight(nReqs + 1, "patch", user, Some(ident), body, body.name, None,
                       "lookup", NoSoul, None, EndedIds)
       IN IF Falsy(body.name) /\ Falsy(body.description) /\ Falsy(body.label)
          THEN /\ done' = done \cup { Ended(r, 400, "none", FALSE, FALSE) }
               /\ UNCHANGED reqs
          ELSE IF FindSoul(souls, ident) = {}
          THEN /\ done' = done \cup { Ended(r, 404, "none", FALSE, FALSE) }
               /\ UNCHANGED reqs
          ELSE \E soul \in FindSoul(souls, ident) :  \* rows[0]
               LET found == [ r EXCEPT !.soul_id = soul.id, !.slug = Some(soul.slug) ] IN
               IF Forbidden(soul, user)
               THEN /\ done' = done \cup { Ended(found, 403, "none", FALSE, FALSE) }
                    /\ UNCHANGED reqs
               ELSE /\ reqs' = reqs \cup
                         { [ found EXCEPT !.pc = IF ~Falsy(body.name) THEN "mint"
                                                 ELSE IF ~Falsy(body.label) THEN "check"
                                                 ELSE "update" ] }
                    /\ UNCHANGED done

\* PATCH /:slug, lines 352-358: const newLabel = await generateLabel(db, body.name)
patchMint(r) ==
    /\ UNCHANGED <<swapVars, cliVars, dbVars, nReqs, overlapped, resp, storage, soulSeq,
                   uploadRun, done>>
    /\ r.route = "patch" /\ r.pc = "mint"
    /\ reqs' = Advance(r, [ r EXCEPT !.label = Some(generateLabel(souls, r.body.name[1])),
                                     !.seen = EndedIds,
                                     !.pc = IF ~Falsy(r.body.label) THEN "check" ELSE "update" ])

\* PATCH /:slug, lines 360-371: the label asked for is looked for in other rows
patchCheck(r) ==
    /\ UNCHANGED <<swapVars, cliVars, dbVars, nReqs, overlapped, resp, storage, soulSeq,
                   uploadRun>>
    /\ r.route = "patch" /\ r.pc = "check"
    /\ IF LabelTaken(souls, r.body.label[1], r.soul_id)
       THEN /\ reqs' = reqs \ {r}
            /\ done' = done \cup { Ended(r, 409, "none", FALSE, FALSE) }
       ELSE /\ reqs' = Advance(r, [ r EXCEPT !.pc = "update" ])
            /\ UNCHANGED done

\* PATCH /:slug, lines 378-390: the UPDATE by id and the answer. When the row
\* is gone the UPDATE changes nothing and parseSoulRow(undefined) throws.
patchUpdate(r) ==
    /\ UNCHANGED <<swapVars, cliVars, ratings, nReqs, overlapped, resp, storage, soulSeq,
                   uploadRun>>
    /\ r.route = "patch" /\ r.pc = "update"
    /\ reqs' = reqs \ {r}
    /\ LET rows == { s \in souls : s.id = r.soul_id } IN
       IF rows = {}
       THEN /\ done' = done \cup { Ended(r, 500, "none", FALSE, FALSE) }
            /\ UNCHANGED souls
       ELSE \E soul \in rows :
            LET label == PatchedLabel(soul, r.body, IF r.label = None THEN soul.label
                                                     ELSE r.label[1])
            IN IF UpdateRefused(souls, soul.id, label)
               THEN /\ done' = done \cup { Ended([ r EXCEPT !.label = Some(label) ],
                                                 500, "none", FALSE, FALSE) }
                    /\ UNCHANGED souls
               ELSE /\ souls' = (souls \ {soul}) \cup { Patched(soul, r.body, label, nReqs) }
                    /\ done' = done \cup { Ended([ r EXCEPT !.label = Some(label) ],
                                                 200, "none", TRUE, FALSE) }

\* DELETE /:slug, lines 427-445: the document is looked up
deleteLookup(user, ident) ==
    /\ UNCHANGED <<swapVars, cliVars, dbVars, overlapped, resp, storage, soulSeq, uploadRun>>
    /\ nReqs < MaxConcReqs
    /\ nReqs' = nReqs + 1
    /\ LET r == Flight(nReqs + 1, "delete", user, Some(ident), NoBody, None, None,
                       "store", NoSoul, None, EndedIds)
       IN IF FindSoul(souls, ident) = {}
          THEN /\ done' = done \cup { Ended(r, 404, "none", FALSE, FALSE) }
               /\ UNCHANGED reqs
          ELSE \E soul \in FindSoul(souls, ident) :  \* rows[0]
               LET found == [ r EXCEPT !.soul_id = soul.id, !.slug = Some(soul.slug),
                                       !.label = Some(soul.label) ] IN
               IF Forbidden(soul, user)
               THEN /\ done' = done \cup { Ended(found, 403, "none", FALSE, FALSE) }
                    /\ UNCHANGED reqs
               ELSE /\ reqs' = reqs \cup { found }
                    /\ UNCHANGED done

\* DELETE /:slug, line 450: await storage.deleteSoul(soul.slug)
deleteStore(r) ==
    /\ UNCHANGED <<swapVars, cliVars, dbVars, nReqs, overlapped, resp, soulSeq, uploadRun, done>>
    /\ r.route = "delete" /\ r.pc = "store"
    /\ storage' = deleteSoul(storage, r.slug[1])
    /\ reqs' = Advance(r, [ r EXCEPT !.pc = "row" ])

\* DELETE /:slug, lines 451-452: DELETE FROM souls WHERE id = ? and the answer
deleteRow(r) ==
    /\ UNCHANGED <<swapVars, cliVars, nReqs, overlapped, resp, storage, soulSeq, uploadRun>>
    /\ r.route = "delete" /\ r.pc = "row"
    /\ reqs' = reqs \ {r}
    /\ souls' = { s \in souls : s.id # r.soul_id }
    /\ ratings' = { x \in ratings : x.soul_id # r.soul_id }  \* ON DELETE CASCADE
    /\ done' = done \cup { Ended(r, 200, "none", \E s \in souls : s.id = r.soul_id, FALSE) }

----------------------------------------------------------------------------
(* storage/s3.ts (S3Storage) and storage/local.ts (LocalStorage) *)

\* What happens to a signed request: the bucket answers it (200 with the
\* object, 404 when there is none), it is answered 403 or 503, the answer's
\* body cannot be read (res.text() rejects), or fetch itself rejects.
Nets == { "answers", "denied", "unavailable", "cut", "down" }

ErrorXml == <<"E">>

\* The Response signedFetch("GET", `${slug}/soul.md`) resolves to: its status
\* and its text (None when reading it rejects); status 0 when fetch rejected.
GetResponse(st, slug, net) ==
    CASE net = "answers" /\ slug \in DOMAIN st -> [ status |-> 200, text |-> Some(st[slug]) ]
      [] net = "answers" /\ slug \notin DOMAIN st -> [ status |-> 404, text |-> Some(ErrorXml) ]
      [] net = "denied" -> [ status |-> 403, text |-> Some(ErrorXml) ]
      [] net = "unavailable" -> [ status |-> 503, text |-> Some(ErrorXml) ]
      [] net = "cut" -> [ status |-> 200, text |-> None ]
      [] OTHER -> [ status |-> 0, text |-> None ]

\* Response.ok
Ok_Always(status) == TRUE
Ok(status) == status \in 200..299

\* What a storage call gives its caller: a value, or an exception
Returned(value) == [ raised |-> FALSE, value |-> value ]
Raised == [ raised |-> TRUE, value |-> None ]

\* S3Storage.getSoul: try { res = await signedFetch(...); if (!res.ok) return
\* null; return await res.text() } catch { return null }
S3GetSoul(res) ==
    IF res.status = 0 THEN Returned(None)          \* fetch rejected: caught
    ELSE IF ~Ok(res.status) THEN Returned(None)
    ELSE IF res.text = None THEN Returned(None)    \* res.text() rejected: caught
    ELSE Returned(res.text)

\* LocalStorage.getSoul: if (!existsSync(filePath)) return null; return readFileSync(...)
LocalGetSoul(st, slug) ==
    IF slug \notin DOMAIN st THEN Returned(None) ELSE Returned(Some(st[slug]))

\* A storage call made: the implementation, the method, its argument, what
\* happened to the request, the response's status and what the caller got.
StoreCall(impl, call, slug, net, status, got) ==
    [ impl |-> impl, call |-> call, slug |-> slug, net |-> net, status |-> status,
      raised |-> got.raised, value |-> got.value ]

NoStoreCall == StoreCall("none", "none", None, "none", 0, Returned(None))

StoreFrame ==
    UNCHANGED <<swapVars, cliVars, concVars, dbVars, reqs, nReqs, overlapped, soulSeq, uploadRun>>

\* S3Storage.saveSoul(slug, content)
S3_saveSoul(slug, content, put) ==
    /\ StoreFrame
    /\ storage' = StoreAfter(storage, slug, content, put)
    /\ resp' = StoreCall("s3", "saveSoul", Some(slug), put, IF put = "stored" THEN 200 ELSE 503,
                         IF SaveThrows(put) THEN Raised ELSE Returned(Some(slug)))

\* S3Storage.getSoul(slug)
S3_getSoul(slug, net) ==
    LET res == GetResponse(storage, slug, net) IN
    /\ StoreFrame
    /\ UNCHANGED storage
    /\ resp' = StoreCall("s3", "getSoul", Some(slug), net, res.status, S3GetSoul(res))

\* The status of the response to signedFetch("DELETE", ...); 0 when fetch rejected
DeleteStatus(net) ==
    CASE net \in { "answers", "cut" } -> 204
      [] net = "denied" -> 403
      [] net = "unavailable" -> 503
      [] OTHER -> 0

\* S3Storage.deleteSoul(slug): await this.signedFetch("DELETE", ...), the
\* response is not looked at
S3_deleteSoul(slug, net) ==
    /\ StoreFrame
    /\ storage' = IF net \in { "answers", "cut" } THEN deleteSoul(storage, slug) ELSE storage
    /\ resp' = StoreCall("s3", "deleteSoul", Some(slug), net, DeleteStatus(net),
                         IF net = "down" THEN Raised ELSE Returned(None))

\* LocalStorage.saveSoul(slug, content)
Local_saveSoul(slug, content) ==
    /\ StoreFrame
    /\ storage' = saveSoul(storage, slug, content)
    /\ resp' = StoreCall("local", "saveSoul", Some(slug), "none", 0, Returned(Some(slug)))

\* LocalStorage.getSoul(slug)
Local_getSoul(slug) ==
    /\ StoreFrame
    /\ UNCHANGED storage
    /\ resp' = StoreCall("local", "getSoul", Some(slug), "none", 0, LocalGetSoul(storage, slug))

\* LocalStorage.deleteSoul(slug)
Local_deleteSoul(slug) ==
    /\ StoreFrame
    /\ storage' = deleteSoul(storage, slug)
    /\ resp' = StoreCall("local", "deleteSoul", Some(slug), "none", 0, Returned(None))

----------------------------------------------------------------------------
(* The local cache (cache.ts) *)

\* The time of a command: commands run one after another, the n-th at time n.
Now == nOps + 1

\* Names are compared without case.
SameName(a, b) == toLowerCase(a) = toLowerCase(b)

\* The position in the index of the entry named name, 0 when there is none
IndexOf(c, name) ==
    IF \E i \in 1..Len(c) : SameName(c[i].name, name)
    THEN CHOOSE i \in 1..Len(c) : SameName(c[i].name, name)
    ELSE 0

\* A new entry: cachedAt = now, never used
Entry(name, content, hash, label, now) ==
    [ name |-> name, label |-> label, hash |-> hash, content |-> content,
      cachedAt |-> now, lastUsedAt |-> None ]

\* cacheSoul(name, content, hash, label): an entry of that name is overwritten
\* in place (hash, label, content, cachedAt), else a new entry is added
cacheSoul(c, name, content, hash, label, now) ==
    LET i == IndexOf(c, name) IN
    IF i = 0 THEN Append(c, Entry(name, content, hash, label, now))
    ELSE [ c EXCEPT ![i] = [ @ EXCEPT !.hash = hash, !.label = label,
                                      !.content = content, !.cachedAt = now ] ]

\* getCached(nameOrLabel): the entry of that name with its content, or null
getCached(c, name) ==
    IF IndexOf(c, name) = 0 THEN None ELSE Some(c[IndexOf(c, name)])

\* listCached(): the entries of the index
listCached(c) == c

\* touchCached(name): lastUsedAt = now, nothing else
touchCached(c, name, now) ==
    LET i == IndexOf(c, name) IN
    IF i = 0 THEN c ELSE [ c EXCEPT ![i] = [ @ EXCEPT !.lastUsedAt = Some(now) ] ]

\* removeCached(name): the index without the entry, and whether there was one
removeCached(c, name) ==
    LET i == IndexOf(c, name) IN
    [ removed |-> i # 0,
      cache |-> IF i = 0 THEN c ELSE SubSeq(c, 1, i - 1) \o SubSeq(c, i + 1, Len(c)) ]

----------------------------------------------------------------------------
(* index.ts: possess, search, summon, banish *)

\* createHash("sha256").update(content).digest("hex"): distinct contents of the
\* model have distinct digests
sha256(content) == <<"h">> \o content

\* String.prototype.includes
Includes(str, sub) ==
    \E i \in 0..(Len(str) - Len(sub)) : SubSeq(str, i + 1, i + Len(sub)) = sub

\* String.prototype.trim over the white space the model draws (the space)
RECURSIVE TrimStart(_)
TrimStart(str) ==
    IF str # << >> /\ Head(str) = " " THEN TrimStart(Tail(str)) ELSE str

RECURSIVE TrimEnd(_)
TrimEnd(str) ==
    IF str # << >> /\ str[Len(str)] = " " THEN TrimEnd(SubSeq(str, 1, Len(str) - 1)) ELSE str

trim(str) == TrimEnd(TrimStart(str))

\* .replace(/[-_\s]+/g, " ") when seps is {"-", "_", " "} and with is " ";
\* .replace(/\s+/g, "-") when seps is {" "} and with is "-"
RECURSIVE ReplaceSeps(_, _, _, _)
ReplaceSeps(str, seps, with, inRun) ==
    IF str = << >> THEN << >>
    ELSE IF Head(str) \notin seps
         THEN <<Head(str)>> \o ReplaceSeps(Tail(str), seps, with, FALSE)
    ELSE IF inRun THEN ReplaceSeps(Tail(str), seps, with, TRUE)
    ELSE <<with>> \o ReplaceSeps(Tail(str), seps, with, TRUE)

\* possess, lines 118-122: const normalize = (s) => s.toLowerCase().replace(/[-_\s]+/g, " ").trim()
normalize(str) == trim(ReplaceSeps(toLowerCase(str), { "-", "_", " " }, " ", FALSE))

\* possess, lines 125-128: the entries whose normalized name contains the
\* normalized token or is contained in it
FuzzyMatch(name, token) ==
    \/ Includes(normalize(name), normalize(token))
    \/ Includes(normalize(token), normalize(name))

fuzzyMatches(c, token) == SelectSeq(listCached(c), LAMBDA e : FuzzyMatch(e.name, token))

\* possess, line 130: if (fuzzyMatches.length > 0) fail(...)
FuzzyFails_Never(matches) == FALSE
FuzzyFails(matches) == Len(matches) > 0

\* possess, line 138: pathOrName.trim().toLowerCase().replace(/\s+/g, "-")
LabelOf(token) == ReplaceSeps(toLowerCase(trim(token)), { " " }, "-", FALSE)

\* What the registry holds under a label: the documents getMeta and
\* getContent can answer with (a document is renamed and rewritten over
\* time), none when the label is unknown.
Doc(name, label, content) == [ name |-> name, label |-> label, content |-> content ]

Catalogue(label) ==
    CASE label = <<"a", "-", "b">> ->
           { Doc(<<"A", " ", "b">>, label, <<"#">>), Doc(<<"a", " ", "B">>, label, <<"#", "#">>) }
      [] label = <<"b">> -> { Doc(<<"B">>, label, <<"#">>) }
      [] OTHER -> {}

\* What the pair of requests Promise.all([getMeta, getContent]) can do for a
\* label: which of the two succeed and which settles first. Both fail for a
\* label the registry does not have.
Fetches(label) ==
    { [ doc |-> doc, metaOk |-> TRUE, contentOk |-> TRUE, first |-> f ] :
        doc \in Catalogue(label), f \in { "meta", "content" } }
    \cup { x \in [ doc : { Doc(<< >>, label, << >>) }, metaOk : BOOLEAN,
                   contentOk : BOOLEAN, first : { "meta", "content" } ] :
             /\ ~(x.metaOk /\ x.contentOk)
             /\ x.metaOk \/ x.contentOk => Catalogue(label) # {} }

\* Promise.all resolves when both promises resolve
BothArrived_ContentOnly(fetch) == fetch.contentOk
BothArrived(fetch) == fetch.metaOk /\ fetch.contentOk

NoFetch == [ doc |-> Doc(<< >>, << >>, << >>), metaOk |-> FALSE, contentOk |-> FALSE,
             first |-> "none" ]

\* What client.search(words[0], undefined, undefined, 5) can do: reject, or
\* resolve to a page of at most five documents
Searches == { "fails", "nothing", "found" }

\* A command run: its name and arguments, what its environment gave it (the
\* local file the token names, the answers of the registry and of the user),
\* the step of the resolution that decided, the requests made to the registry,
\* how it ended, the names it printed as candidates, the cached document it
\* applied with swapSoul, whether it repeats a possess that fetched its token
\* from the registry, and the files and the cache before it.
Cmd(name, token, opts, file, step, fetch, requests, outcome, candidates, applied) ==
    [ name |-> name, token |-> token, opts |-> opts, file |-> file, step |-> step,
      fetch |-> fetch, requests |-> requests, outcome |-> outcome,
      candidates |-> candidates, applied |-> applied, time |-> Now,
      repeats |-> /\ name = "possess" /\ cmd.name = "possess" /\ cmd.token = token
                  /\ cmd.step = "registry" /\ cmd.outcome = "possessed",
      preFile |-> soulFile, preBackup |-> backupFile, preCache |-> cache ]

\* The command ends without calling swapSoul.
NoSwap ==
    /\ nOps < MaxOps
    /\ nOps' = nOps + 1
    /\ UNCHANGED <<soulFile, backupFile, soulDir, backupDir, c0, shape, backupWrites, last>>

Opts(dryRun, yes) == [ dryRun |-> dryRun, yes |-> yes ]

\* possess, lines 220-236: the user is asked before the first swap
Asks(opts, tty) == ~opts.yes /\ ~isSwapped /\ existsSync(soulFile) /\ tty

\* possess, lines 192-250, once content, source and soulName are known: the
\* target is validated, a dry run returns, the user is asked, swapSoul and
\* touchCached are called. The configured path's basename is SOUL.md.
Apply(token, opts, file, step, fetch, requests, content, soulName, c, tty, answer) ==
    LET Ends(outcome, applied) ==
            Cmd("possess", token, opts, file, step, fetch, requests, outcome, << >>, applied)
    IN IF ~soulDir
       THEN /\ NoSwap
            /\ cache' = c
            /\ cmd' = Ends("exit 1: Target directory not found", None)
       ELSE IF opts.dryRun
       THEN /\ NoSwap
            /\ cache' = c
            /\ cmd' = Ends("dry-run", None)
       ELSE IF Asks(opts, tty) /\ ~answer
       THEN /\ NoSwap
            /\ cache' = c
            /\ cmd' = Ends("aborted", None)
       ELSE /\ SwapFiles(content)
            /\ cache' = IF soulName # None THEN touchCached(c, soulName[1], Now) ELSE c
            /\ cmd' = Ends("possessed", soulName)

\* possess, line 105: if (existsSync(filePath)), before the cache is looked at
ReadsFile_CacheFirst(file, c, token) == existsSync(file) /\ getCached(c, token) = None
ReadsFile(file, c, token) == existsSync(file)

\* program.command("possess <pathOrName>"): file is what existsSync(filePath)
\* and readFileSync find under the token, tty is process.stdin.isTTY, answer
\* the user's answer to the prompt, fetch and results what the registry does.
possess(token, opts, file, tty, answer, fetch, results) ==
    /\ UNCHANGED <<regVars, procs>>
    /\ IF ReadsFile(file, cache, token)
       THEN Apply(token, opts, file, "file", NoFetch, {}, file[1], None, cache, tty, answer)
       ELSE IF getCached(cache, token) # None
       THEN Apply(token, opts, file, "cache", NoFetch, {}, getCached(cache, token)[1].content,
                  Some(getCached(cache, token)[1].name), cache, tty, answer)
       ELSE IF FuzzyFails(fuzzyMatches(cache, token))
       THEN /\ NoSwap
            /\ UNCHANGED cache
            /\ cmd' = Cmd("possess", token, opts, file, "fuzzy", NoFetch, {},
                          "exit 1: not found in cache",
                          [ i \in 1..Len(fuzzyMatches(cache, token)) |->
                              fuzzyMatches(cache, token)[i].name ], None)
       ELSE IF BothArrived(fetch)
       THEN Apply(token, opts, file, "registry", fetch, { "meta", "content" },
                  fetch.doc.content, Some(fetch.doc.name),
                  cacheSoul(cache, fetch.doc.name, fetch.doc.content,
                            sha256(fetch.doc.content), Some(fetch.doc.label), Now),
                  tty, answer)
       ELSE /\ NoSwap
            /\ UNCHANGED cache
            /\ cmd' = Cmd("possess", token, opts, file, "registry", fetch,
                          { "meta", "content", "search" },
                          "exit 1: not found as a local file, in cache, or in the registry",
                          IF results = "found" THEN << <<"a", "-", "b">> >> ELSE << >>, None)

\* program.command("search [query]"), interactive: the user selects label (or
\* cancels), the document is summoned, and possessed at once when the user
\* says so.
search(label, fetch, shouldSwap) ==
    LET Ends(requests, outcome, applied) ==
            Cmd("search", label, Opts(FALSE, FALSE), None, "registry", fetch, requests,
                outcome, << >>, applied)
        c == cacheSoul(cache, fetch.doc.name, fetch.doc.content, sha256(fetch.doc.content),
                       Some(fetch.doc.label), Now)
    IN /\ UNCHANGED <<regVars, procs>>
       /\ IF label = <<"_", "_", "c", "a", "n", "c", "e", "l", "_", "_">>
          THEN /\ NoSwap
               /\ UNCHANGED cache
               /\ cmd' = Ends({ "search" }, "cancelled", None)
          ELSE IF ~BothArrived(fetch)
          THEN /\ NoSwap
               /\ UNCHANGED cache
               /\ cmd' = Ends({ "search", "meta", "content" }, "exit 1", None)
          ELSE IF ~shouldSwap
          THEN /\ NoSwap
               /\ cache' = c
               /\ cmd' = Ends({ "search", "meta", "content" }, "summoned", None)
          ELSE /\ SwapFiles(fetch.doc.content)
               /\ cache' = c
               /\ cmd' = Ends({ "search", "meta", "content" }, "possessed",
                              Some(fetch.doc.name))

\* program.command("summon <label>")
summon(label, fetch) ==
    LET Ends(outcome) ==
            Cmd("summon", label, Opts(FALSE, FALSE), None, "registry", fetch,
                { "meta", "content" }, outcome, << >>, None)
    IN /\ UNCHANGED <<regVars, procs>>
       /\ NoSwap
       /\ IF BothArrived(fetch)
          THEN /\ cache' = cacheSoul(cache, fetch.doc.name, fetch.doc.content,
                                     sha256(fetch.doc.content), Some(fetch.doc.label), Now)
               /\ cmd' = Ends("summoned")
          ELSE /\ UNCHANGED cache
               /\ cmd' = Ends("exit 1")

\* program.command("banish <name>")
banish(name) ==
    LET r == removeCached(cache, name) IN
    /\ UNCHANGED <<regVars, procs>>
    /\ NoSwap
    /\ cache' = r.cache
    /\ cmd' = Cmd("banish", name, Opts(FALSE, FALSE), None, "cache", NoFetch, {},
                  IF r.removed THEN "banished" ELSE "exit 1: not found in cache", << >>, None)

----------------------------------------------------------------------------
(* Specifications *)

NoCall ==
    [ name |-> "none", arg |-> None, ret |-> FALSE,
      preFile |-> None, preBackup |-> None, prev |-> "none", prevRet |-> FALSE ]

\* No command has been run.
NoCmd == [ name |-> "none" ]

\* The CLI's cache while only the swap engine or the registry is looked at.
CliIdle == cache = << >> /\ cmd = NoCmd /\ procs = [ p \in Procs |-> NotStarted ]

\* The CLI's state while only the registry is looked at.
SwapIdle ==
    /\ soulFile = None /\ backupFile = None /\ soulDir = FALSE /\ backupDir = FALSE
    /\ c0 = None /\ nOps = 0 /\ shape = "init" /\ backupWrites = 0 /\ last = NoCall
    /\ CliIdle

NoResponse == Rejected(0, 0, None, [ kind |-> "undefined", tenths |-> 0 ])

\* The registry's state while only the CLI is looked at.
RegIdle ==
    /\ souls = {} /\ ratings = {}
    /\ reqs = {} /\ nReqs = 0 /\ overlapped = FALSE /\ resp = NoResponse
    /\ storage = << >> /\ soulSeq = 0 /\ uploadRun = NoRun
    /\ done = {}

\* The filesystem the CLI starts on: the active file absent or holding any
\* text, a backup left by an earlier run or none. A backup is only ever made
\* of an existing active file, so its directory and the active file's exist.
SwapInit ==
    /\ soulFile \in {None} \cup { Some(t) : t \in Texts }
    /\ backupFile \in {None} \cup { Some(t) : t \in PlainTexts }
    /\ soulDir \in BOOLEAN
    /\ backupDir \in BOOLEAN
    /\ existsSync(soulFile) => soulDir
    /\ existsSync(backupFile) => (backupDir /\ soulDir)
    /\ c0 = soulFile
    /\ nOps = 0
    /\ shape = "init"
    /\ backupWrites = 0
    /\ last = NoCall
    /\ RegIdle
    /\ CliIdle

SwapNext ==
    \/ \E newContent \in Texts : swapSoul(newContent)
    \/ rollbackSoul
    \/ exorcise

SwapSpec == SwapInit /\ [][SwapNext]_vars

\* A machine on which the CLI never ran: no backup, the active file absent or
\* as the bot wrote it (ORIGINAL).
FreshInit ==
    /\ SwapInit
    /\ ~isSwapped
    /\ backupFile = None
    /\ backupDir = FALSE

\* swapSoul and rollbackSoul called in any order, nothing else writing the files
FreshNext ==
    \/ \E newContent \in Texts : swapSoul(newContent)
    \/ rollbackSoul

FreshSpec == FreshInit /\ [][FreshNext]_vars

\* Two CLI processes each call swapSoul once on the same machine; rollbackSoul
\* is called when they are done.
SwapConcNext ==
    \/ \E p \in Procs, newContent \in PlainTexts : swapCheck(p, newContent)
    \/ \E p \in Procs : swapCopy(p)
    \/ \E p \in Procs : swapWrite(p)
    \/ (\A p \in Procs : procs[p].pc = "done") /\ rollbackSoul

SwapConcSpec == FreshInit /\ [][SwapConcNext]_vars

\* The registry with two documents uploaded by user 1 and no rating yet.
RateInit ==
    /\ SwapIdle
    /\ souls = { SoulRow(1, SlugOne, LabelOne, <<"A">>, 1),
                 SoulRow(2, SlugTwo, LabelTwo, <<"B">>, 1) }
    /\ ratings = {}
    /\ reqs = {}
    /\ nReqs = 0
    /\ overlapped = FALSE
    /\ resp = NoResponse
    /\ storage = [ k \in {SlugOne, SlugTwo} |-> <<"#">> ]
    /\ soulSeq = 2
    /\ uploadRun = NoRun
    /\ done = {}

\* Rate requests handled one at a time.
RateNext ==
    \E user \in Users, ident \in RateIdents, rating \in RatingInputs :
        rate(user, ident, rating)

RateSpec == RateInit /\ [][RateNext]_vars

\* Rate requests handled concurrently: their database statements interleave.
RateConcNext ==
    \/ \E user \in Users, ident \in RateIdents, rating \in RatingInputs :
          rateReceive(user, ident, rating)
    \/ \E r \in reqs : rateLookup(r)
    \/ \E r \in reqs : rateUpsert(r)
    \/ \E r \in reqs : rateStats(r)
    \/ \E r \in reqs : rateWrite(r)

RateConcSpec == RateInit /\ [][RateConcNext]_vars

\* The registry as created: no document, no rating, nothing stored.
LabelInit ==
    /\ SwapIdle
    /\ souls = {}
    /\ ratings = {}
    /\ reqs = {}
    /\ nReqs = 0
    /\ overlapped = FALSE
    /\ resp = Reply("none", 0, 0, None, NoBody, None, None, None, "none")
    /\ storage = << >>
    /\ soulSeq = 0
    /\ uploadRun = NoRun
    /\ done = {}

\* The identifiers a delete request names: labels and slugs documents can have.
DeleteIdents == { <<"a", "-", "b">>, <<"a", "-", "b", "-", "2">>, <<"K", "1">> }

\* Uploads and deletes handled one at a time.
LabelNext ==
    \/ \E user \in Users, content \in { << >>, <<"#">> }, name \in Names, slug \in nanoid :
          upload(user, content, name, slug, "stored")
    \/ \E user \in Users, ident \in DeleteIdents : delete(user, ident)

LabelSpec == LabelInit /\ [][LabelNext]_vars

\* The bodies a PATCH request carries
PatchBodies ==
    { Body(None, name, label, description) :
        name \in { None, Some(<<"A", " ", "b">>) },
        label \in { None, Some(<<"a", "-", "b">>), Some(<<"b">>) },
        description \in { None, Some(<< >>), Some(<<"d">>) } }

\* Uploads, metadata and content updates and deletes handled one at a time, on
\* a store whose writes can fail.
RegNext ==
    \/ \E user \in Users, content \in { << >>, <<"#">> }, name \in Names, slug \in nanoid,
          put \in StoreOutcomes :
          nReqs < MaxRegReqs /\ upload(user, content, name, slug, put)
    \/ \E user \in Users, ident \in DeleteIdents, body \in PatchBodies :
          nReqs < MaxRegReqs /\ patch(user, ident, body)
    \/ \E user \in Users, ident \in DeleteIdents, content \in { << >>, <<"#">>, <<"#", "#">> },
          put \in StoreOutcomes :
          nReqs < MaxRegReqs /\ putContent(user, ident, content, put)
    \/ \E user \in Users, ident \in DeleteIdents :
          nReqs < MaxRegReqs /\ delete(user, ident)

RegSpec == LabelInit /\ [][RegNext]_vars

\* The labels a PATCH request can ask for: body.label is any non-empty string,
\* so a free label, a label another document has, and another document's slug.
AskedLabels == { <<"c">>, LabelTwo, SlugTwo }

\* Metadata updates that set a label or rename, and uploads, one at a time on
\* the registry with two documents.
IdentNext ==
    \/ \E user \in 1..2, ident \in { SlugOne, LabelOne, SlugTwo }, label \in AskedLabels :
          nReqs < MaxRegReqs /\ patch(user, ident, Body(None, None, Some(label), None))
    \/ \E user \in 1..2, ident \in { SlugOne, LabelTwo } :
          nReqs < MaxRegReqs /\ patch(user, ident, Body(None, Some(<<"B">>), None, None))
    \/ \E user \in 1..2, name \in { <<"A">>, <<"B">> }, slug \in nanoid :
          nReqs < MaxRegReqs /\ upload(user, <<"#">>, name, slug, "stored")

IdentSpec == RateInit /\ [][IdentNext]_vars

\* The CLI on a machine with nothing cached: the active file absent or as the
\* bot wrote it, no backup.
CliInit ==
    /\ soulFile \in { None, Some(<<"#">>) }
    /\ backupFile = None
    /\ soulDir \in BOOLEAN
    /\ backupDir = FALSE
    /\ existsSync(soulFile) => soulDir
    /\ c0 = soulFile
    /\ nOps = 0
    /\ shape = "init"
    /\ backupWrites = 0
    /\ last = NoCall
    /\ RegIdle
    /\ CliIdle

\* The tokens given to possess, the labels given to search and summon, the
\* names given to banish
MaxCmds == 3
Tokens == { <<"A", " ", "b">>, <<"a", "-", "b">>, <<"a">>, <<"b">> }
Labels == { <<"a", "-", "b">>, <<"b">>, <<"_", "_", "c", "a", "n", "c", "e", "l", "_", "_">> }
LocalFiles == { None, Some(<<"#">>) }

\* What a run of possess reads of its options and of the terminal: an input
\* the run does not read is drawn at one value.
Mode(dryRun, yes, tty, answer) ==
    [ opts |-> Opts(dryRun, yes), tty |-> tty, answer |-> answer ]

Modes ==
    { Mode(TRUE, FALSE, FALSE, TRUE), Mode(FALSE, TRUE, FALSE, TRUE),
      Mode(FALSE, FALSE, FALSE, TRUE), Mode(FALSE, FALSE, TRUE, TRUE),
      Mode(FALSE, FALSE, TRUE, FALSE) }

CliNext ==
    \/ \E token \in Tokens, mode \in Modes, file \in LocalFiles \ { None } :
          nOps < MaxCmds
          /\ possess(token, mode.opts, file, mode.tty, mode.answer, NoFetch, "nothing")
    \/ \E token \in Tokens, mode \in Modes, results \in Searches :
          \E fetch \in Fetches(LabelOf(token)) :
             nOps < MaxCmds
             /\ (fetch.metaOk /\ fetch.contentOk => results = "nothing" /\ fetch.first = "meta")
             /\ (~(fetch.metaOk /\ fetch.contentOk) => mode = Mode(FALSE, FALSE, FALSE, TRUE))
             /\ possess(token, mode.opts, None, mode.tty, mode.answer, fetch, results)
    \/ \E label \in Labels, shouldSwap \in BOOLEAN :
          \E fetch \in Fetches(label) :
             nOps < MaxCmds
             /\ (fetch.metaOk /\ fetch.contentOk => fetch.first = "meta")
             /\ search(label, fetch, shouldSwap)
    \/ \E label \in Labels :
          \E fetch \in Fetches(label) :
             nOps < MaxCmds
             /\ (fetch.metaOk /\ fetch.contentOk => fetch.first = "meta")
             /\ summon(label, fetch)
    \/ \E name \in Tokens : nOps < MaxCmds /\ banish(name)

CliSpec == CliInit /\ [][CliNext]_vars

\* An empty content store.
StoreInit ==
    /\ SwapIdle
    /\ souls = {}
    /\ ratings = {}
    /\ reqs = {}
    /\ nReqs = 0
    /\ overlapped = FALSE
    /\ resp = NoStoreCall
    /\ storage = << >>
    /\ soulSeq = 0
    /\ uploadRun = NoRun
    /\ done = {}

Contents == { <<"#">>, <<"E">> }

\* The calls made to a content store: the S3 bucket, or the local directory.
StoreNext ==
    \/ \E slug \in AllSlugs, content \in Contents, put \in StoreOutcomes :
          S3_saveSoul(slug, content, put)
    \/ \E slug \in AllSlugs, net \in Nets : S3_getSoul(slug, net)
    \/ \E slug \in AllSlugs, net \in Nets : S3_deleteSoul(slug, net)
    \/ \E slug \in AllSlugs, content \in Contents : Local_saveSoul(slug, content)
    \/ \E slug \in AllSlugs : Local_getSoul(slug)
    \/ \E slug \in AllSlugs : Local_deleteSoul(slug)

StoreSpec == StoreInit /\ [][StoreNext]_vars

\* The inputs of the requests handled concurrently
ConcUsers == { 1, 2 }
ConcNames == { <<"A">> }
ConcIdents == { SlugOne, LabelTwo }
ConcBodies ==
    { Body(None, name, label, None) :
        name \in { None, Some(<<"A">>) }, label \in { None, Some(<<"c">>) } } \ { NoBody }

\* Uploads, metadata updates and deletes handled concurrently: their database
\* and storage statements interleave.
RegConcNext ==
    \/ \E user \in ConcUsers, name \in ConcNames, slug \in nanoid :
          uploadLabel(user, <<"#">>, name, slug)
    \/ \E r \in reqs, put \in StoreOutcomes : uploadSave(r, put)
    \/ \E r \in reqs : uploadInsert(r)
    \/ \E user \in ConcUsers, ident \in ConcIdents, body \in ConcBodies :
          patchLookup(user, ident, body)
    \/ \E r \in reqs : patchMint(r)
    \/ \E r \in reqs : patchCheck(r)
    \/ \E r \in reqs : patchUpdate(r)
    \/ \E user \in ConcUsers, ident \in ConcIdents : deleteLookup(user, ident)
    \/ \E r \in reqs : deleteStore(r)
    \/ \E r \in reqs : deleteRow(r)

RegConcSpec == RateInit /\ [][RegConcNext]_vars

\* Download requests beside rate requests whose statements interleave.
DownloadConcNext ==
    \/ \E user \in ConcUsers, ident \in { SlugOne, LabelOne },
          rating \in { [ kind |-> "number", tenths |-> 50 ] } :
          rateReceive(user, ident, rating)
    \/ \E r \in reqs : rateLookup(r)
    \/ \E r \in reqs : rateUpsert(r)
    \/ \E r \in reqs : rateStats(r)
    \/ \E r \in reqs : rateWrite(r)
    \/ \E ident \in { SlugOne, LabelOne, <<"n", "o">> } :
          nReqs < MaxConcReqs + 1 /\ download(ident)

DownloadConcSpec == RateInit /\ [][DownloadConcNext]_vars

\* The number of requests the registry receives in one behaviour in which
\* the documents are listed.
MaxListReqs == 3

\* The query values of a list request: a filter (none, a search, a tag given
\* with a search), an order, a page and a limit (absent or an integer).
ListFilters ==
    { [ tag |-> None, search |-> None ], [ tag |-> None, search |-> Some(<<"b">>) ],
      [ tag |-> Some(<<"b">>), search |-> Some(<<"b">>) ] }
ListSorts == { None, Some("popular"), Some("newest") }
ListPages == { None } \cup { Some(n) : n \in { 0, 2 } }
ListLimits == { None } \cup { Some(n) : n \in { 0, 1, 101 } }

\* Uploads, ratings, downloads and listings handled one at a time.
ListNext ==
    \/ \E slug \in nanoid :
          nReqs < MaxListReqs /\ upload(2, <<"#">>, <<"B">>, slug, "stored")
    \/ \E ident \in { SlugOne, LabelTwo } :
          nReqs < MaxListReqs /\ rate(2, ident, [ kind |-> "number", tenths |-> 50 ])
    \/ \E ident \in { SlugOne, LabelTwo } : nReqs < MaxListReqs /\ reqs = {} /\ download(ident)
    \/ \E f \in ListFilters, sort \in ListSorts, page \in ListPages, limit \in ListLimits :
          nReqs < MaxListReqs /\ list(f.tag, f.search, sort, page, limit)

ListSpec == RateInit /\ [][ListNext]_vars

----------------------------------------------------------------------------
(* Properties of the swap engine *)

IsOriginal(f) == existsSync(f) /\ ~StartsWith(f[1], SWAP_MARKER)

\* C1: starting from an existing active file C0 that does not begin with the
\* marker, after any n >= 1 swapSoul calls (and nothing else) exactly one
\* backup write has happened, the backup holds C0, and only the first call
\* returned backedUp = true.
C1_OneBackupWrite ==
    (IsOriginal(c0) /\ shape = "swaps") =>
        /\ backupWrites = 1
        /\ backupFile = c0
        /\ last.ret = (nOps = 1)

C1_Witness ==
    /\ IsOriginal(c0) /\ shape = "swaps" /\ nOps >= 3
    /\ backupWrites = 1 /\ backupFile = c0 /\ last.ret = FALSE

\* C2: starting from an existing ORIGINAL file C0, after n >= 1 swapSoul calls
\* with arbitrary contents, rollbackSoul returns true and the active file is C0.
C2_RollbackRestoresC0 ==
    (IsOriginal(c0) /\ shape = "swapsThenRollback") =>
        (last.ret = TRUE /\ soulFile = c0)

C2_Witness ==
    /\ IsOriginal(c0) /\ shape = "swapsThenRollback" /\ nOps >= 3
    /\ soulFile = c0 /\ last.preFile # c0

\* C3: with no backup, rollbackSoul returns false and leaves the active file
\* and the backup slot as they were; exorcise exits with an error and writes
\* nothing.
C3_RollbackWithoutBackup ==
    /\ (last.name = "rollback" /\ last.preBackup = None) =>
           (last.ret = FALSE /\ soulFile = last.preFile /\ backupFile = None)
    /\ (last.name = "exorcise" /\ last.preBackup = None) =>
           /\ last.ret \in {"exit 1: No backup found", "exit 1: Failed to exorcise"}
           /\ soulFile = last.preFile
           /\ backupFile = None

C3_Witness ==
    /\ last.name = "rollback" /\ last.preBackup = None /\ last.ret = FALSE
    /\ isSwapped /\ soulFile = last.preFile

\* C4: with a backup, rollbackSoul succeeds whatever the active file holds and
\* keeps the backup; a second rollbackSoul right after a successful one
\* succeeds too and leaves the active file as the first left it.
C4_RollbackRepeatable ==
    /\ (last.name = "rollback" /\ last.preBackup # None) =>
           (last.ret = TRUE /\ backupFile = last.preBackup)
    /\ (last.name = "rollback" /\ last.prev = "rollback" /\ last.prevRet = TRUE) =>
           (last.ret = TRUE /\ soulFile = last.preFile /\ backupFile = last.preBackup)

C4_Witness ==
    /\ last.name = "rollback" /\ last.prev = "rollback" /\ last.prevRet = TRUE
    /\ last.ret = TRUE /\ ~isSwappedFile(last.preFile)
    /\ soulFile = last.preFile /\ backupFile # None

\* C5: whatever the active file was (absent, ORIGINAL or SWAPPED), after
\* swapSoul(newContent) it holds the marker line, a newline and newContent,
\* and isSwapped() is true.
C5_SwapWritesMarked ==
    (last.name = "swap") =>
        /\ existsSync(soulFile)
        /\ Len(soulFile[1]) = Len(SWAP_MARKER) + 1 + Len(last.arg[1])
        /\ SubSeq(soulFile[1], 1, Len(SWAP_MARKER)) = SWAP_MARKER
        /\ soulFile[1][Len(SWAP_MARKER) + 1] = NL
        /\ SubSeq(soulFile[1], Len(SWAP_MARKER) + 2, Len(soulFile[1])) = last.arg[1]
        /\ isSwapped

C5_Witness ==
    /\ last.name = "swap" /\ last.preFile = None /\ last.arg = Some(<<"#">>)
    /\ isSwapped /\ last.ret = FALSE

----------------------------------------------------------------------------
(* Properties of the rating aggregation *)

RatingsOf(soul_id) == { r \in ratings : r.soul_id = soul_id }

\* t tenths is the mean of the rows rounded to one decimal place, a half
\* rounded away from zero: t - 1/2 <= 10 * sum / count < t + 1/2.
IsRoundedMean(t, rows) ==
    /\ rows # {}
    /\ (2 * t - 1) * Cardinality(rows) <= 20 * SumRatings(rows)
    /\ 20 * SumRatings(rows) < (2 * t + 1) * Cardinality(rows)

StatsAreTrue(s) ==
    /\ s.rating_count = Cardinality(RatingsOf(s.id))
    /\ RatingsOf(s.id) # {} => IsRoundedMean(s.rating_avg, RatingsOf(s.id))

\* C6: with rate requests handled one at a time, every document's stored
\* rating_avg is the mean of its current rating rows rounded to one decimal and
\* its rating_count is the number of those rows; the rate call returns the two
\* stored values.
C6_StoredStatsAreTrue ==
    /\ \A s \in souls : StatsAreTrue(s)
    /\ resp.status = 200 =>
          \E s \in souls : /\ s.id = resp.soul_id
                           /\ resp.rating_avg = s.rating_avg
                           /\ resp.rating_count = s.rating_count

C6_Witness ==
    /\ resp.status = 200
    /\ \E s \in souls : /\ s.id = resp.soul_id
                        /\ s.rating_count = 3
                        /\ s.rating_avg = 27
                        /\ SumRatings(RatingsOf(s.id)) = 8

\* C7: there is at most one rating row per (document, rater); a rate call by a
\* rater who already has a row replaces its value and leaves rating_count as
\* it was, a first rating by a rater raises rating_count by one.
C7_OneRatingPerRater ==
    /\ \A r1, r2 \in ratings :
          (r1.soul_id = r2.soul_id /\ r1.user_id = r2.user_id) => r1 = r2
    /\ resp.status = 200 =>
          /\ \E r \in ratings : /\ r.soul_id = resp.soul_id
                                /\ r.user_id = resp.user
                                /\ 10 * r.rating = resp.rating.tenths
          /\ \E s \in souls :
                /\ s.id = resp.soul_id
                /\ s.rating_count = IF resp.hadRow THEN resp.preCount
                                    ELSE resp.preCount + 1

C7_Witness ==
    /\ resp.status = 200 /\ resp.hadRow /\ resp.preCount = 2 /\ resp.rating_count = 2
    /\ resp.rating.tenths = 50
    /\ \E r \in ratings : r.soul_id = resp.soul_id /\ r.user_id = resp.user /\ r.rating = 5

\* C8: once two concurrent rate requests from different users on the same
\* document have both finished, the document's stored rating_avg and
\* rating_count are the true rounded mean and row count of its ratings,
\* whatever the interleaving of their statements.
C8_ConcurrentRatersConverge ==
    (/\ reqs = {}
     /\ nReqs = 2
     /\ overlapped
     /\ resp.status = 200
     /\ Cardinality({ r.user_id : r \in RatingsOf(resp.soul_id) }) = 2)
    => \A s \in souls : s.id = resp.soul_id => StatsAreTrue(s)

\* Not a rating, in the specification's words: missing, not an integer, below 1
\* or above 5.
NotARating(rating) ==
    \/ rating.kind # "number"
    \/ rating.tenths % 10 # 0
    \/ rating.tenths < 10
    \/ rating.tenths > 50

\* C9: a rate request whose rating is missing, not an integer, below 1 or
\* above 5 is answered 400 and neither table souls nor table soul_ratings
\* changes, whatever identifier it names.
C9_InvalidRatingRejected ==
    [][ (nReqs' = nReqs + 1 /\ NotARating(resp'.rating)) =>
           (resp'.status = 400 /\ souls' = souls /\ ratings' = ratings) ]_vars

C9_Witness ==
    /\ resp.status = 400
    /\ resp.rating = [ kind |-> "number", tenths |-> 25 ]
    /\ resp.ident = SlugOne
    /\ RatingsOf(1) # {}

----------------------------------------------------------------------------
(* Properties of label minting *)

LabelsOf(tbl) == { s.label : s \in tbl }

\* base when no document has it, else base-k for the smallest k >= 2 no
\* document has
SmallestFreeLabel(tbl, base) ==
    IF base \notin LabelsOf(tbl) THEN base
    ELSE LET k == CHOOSE k \in 2..(Cardinality(tbl) + 2) :
                     /\ Suffixed(base, k) \notin LabelsOf(tbl)
                     /\ \A j \in 2..(k - 1) : Suffixed(base, j) \in LabelsOf(tbl)
         IN Suffixed(base, k)

\* The base labels of the names drawn, written out.
BaseOf(name) ==
    CASE name = <<"A", " ", "b">> -> <<"a", "-", "b">>
      [] name = <<"a", "-", "-", "B", "!">> -> <<"a", "-", "b">>
      [] name = <<"a", " ", "b", " ", "3">> -> <<"a", "-", "b", "-", "3">>
      [] name = <<"!", "!">> -> << >>

\* base, base-2, ..., base-n
RunLabels(base, n) == {base} \cup { Suffixed(base, k) : k \in 2..n }

\* C10: the label an upload mints is the slugified name when no document has
\* it, and otherwise base-k for the smallest k >= 2 that no document has; so
\* n uploads of one name into an empty registry, one after another, give the
\* labels base, base-2, ..., base-n under n distinct slugs.
C10_LabelIsSmallestFree ==
    /\ [][ (nReqs' = nReqs + 1 /\ resp'.route = "upload" /\ resp'.status = 201) =>
              resp'.label = Some(SmallestFreeLabel(souls, BaseOf(resp'.name[1]))) ]_vars
    /\ [](uploadRun.n >= 1 =>
              /\ LabelsOf(souls) = RunLabels(BaseOf(uploadRun.name[1]), uploadRun.n)
              /\ Cardinality({ s.slug : s \in souls }) = uploadRun.n
              /\ Cardinality(souls) = uploadRun.n
              /\ resp.label = Some(IF uploadRun.n = 1 THEN BaseOf(uploadRun.name[1])
                                   ELSE Suffixed(BaseOf(uploadRun.name[1]), uploadRun.n)))

C10_Witness ==
    /\ uploadRun.n = 3
    /\ uploadRun.name = Some(<<"A", " ", "b">>)
    /\ resp.status = 201
    /\ resp.label = Some(<<"a", "-", "b", "-", "3">>)
    /\ LabelsOf(souls) = { <<"a", "-", "b">>, <<"a", "-", "b", "-", "2">>,
                           <<"a", "-", "b", "-", "3">> }

----------------------------------------------------------------------------
(* Properties of the registry's owner-only requests and of failing storage *)

\* C13: when the storage write (saveSoul) of an upload or of a content update
\* fails, the request fails: it is answered neither 201 nor 200, and no row of
\* table souls is inserted or updated.
C13_StorageFailureFailsRequest ==
    [][ (/\ nReqs' = nReqs + 1
         /\ resp'.route \in { "upload", "content" }
         /\ resp'.put = "refused")
        => (resp'.status \notin { 200, 201 } /\ souls' = souls /\ soulSeq' = soulSeq) ]_vars

C13_Witness ==
    /\ resp.route = "content" /\ resp.put = "refused" /\ resp.status = 500
    /\ \E s \in souls : /\ Some(s.slug) = resp.slug
                        /\ s.user_id = resp.user
                        /\ s.updated_at < nReqs
                        /\ storage[s.slug] # resp.body.content[1]

OwnerOnly == { "patch", "content", "delete" }

\* The request passes the handler's validation of its body, which comes before
\* the lookup (400 "Nothing to update", 400 "Missing 'content' field").
WellFormed(r) ==
    CASE r.route = "patch" ->
           ~(Falsy(r.body.name) /\ Falsy(r.body.description) /\ Falsy(r.body.label))
      [] r.route = "content" -> ~Falsy(r.body.content)
      [] OTHER -> TRUE

RegistryUntouched == souls' = souls /\ storage' = storage /\ ratings' = ratings

\* C20: a well-formed PATCH metadata, PUT content or DELETE request that names
\* no document is answered 404, one that names a document the requester does
\* not own is answered 403, and in both cases table souls, the rating rows and
\* the stored contents stay as they were.
C20_ExistenceThenOwnership ==
    [][ (nReqs' = nReqs + 1 /\ resp'.route \in OwnerOnly /\ WellFormed(resp')) =>
          LET found == FindSoul(souls, resp'.ident[1]) IN
          /\ found = {} => (resp'.status = 404 /\ RegistryUntouched)
          /\ (found # {} /\ \A s \in found : s.user_id # resp'.user) =>
                (resp'.status = 403 /\ RegistryUntouched) ]_vars

C20_Witness ==
    /\ resp.route = "content" /\ resp.status = 403
    /\ \E s \in souls : Some(s.slug) = resp.slug /\ s.user_id # resp.user
    /\ resp.body.content = Some(<<"#", "#">>)
    /\ \A k \in DOMAIN storage : storage[k] = <<"#">>

----------------------------------------------------------------------------
(* Properties of the registry under concurrent requests *)

\* C11: whatever uploads, PATCH requests (name, label or both) and deletes
\* have run, one after another or interleaved statement by statement, no two
\* rows of table souls have the same slug and no two have the same label.
C11_SlugAndLabelUnique ==
    \A s1, s2 \in souls : (s1.slug = s2.slug \/ s1.label = s2.label) => s1 = s2

C11_Witness ==
    /\ reqs = {}
    /\ \E d1, d2 \in done :
          /\ d1.route = "patch" /\ d2.route = "patch"
          /\ d1.status = 200 /\ d2.status = 500
          /\ d1.label = Some(<<"c">>) /\ d2.label = Some(<<"c">>)
          /\ d1.soul_id # d2.soul_id
          /\ d1.id \notin d2.seen
    /\ Cardinality({ s \in souls : s.label = <<"c">> }) = 1

\* The upload got as far as its INSERT.
Inserted(d) == d.route = "upload" /\ d.put = "stored"

\* Of the requests ids, those whose last statement changed table souls.
Wrote(ids) == { d.id : d \in { x \in done : x.wrote /\ x.id \in ids } }

\* f and s are two uploads of one name that both read the labels before either
\* executed its INSERT, f's INSERT came first, and no other request changed
\* table souls from the first of the two reads to the second INSERT.
RacingUploads(f, s) ==
    /\ f.id # s.id /\ Inserted(f) /\ Inserted(s)
    /\ f.name = s.name
    /\ f.id \notin s.seen /\ s.id \notin f.seen
    /\ f.id \in s.before
    /\ Wrote(f.seen) = Wrote(s.seen)
    /\ Wrote(f.before) = Wrote(f.seen)
    /\ Wrote(s.before) \ {f.id} = Wrote(f.seen)

\* C12: two uploads of one name that both read the labels before either
\* inserts compute the same label; they are never both answered 201, and
\* exactly one of them is (the first to insert) unless nanoid gave the first
\* an id a document already has.
C12_OneOfTwoRacingUploadsFails ==
    \A f, s \in done :
        RacingUploads(f, s) =>
            /\ f.label = s.label
            /\ ~(f.status = 201 /\ s.status = 201)
            /\ (f.status = 201 /\ s.status = 500) \/ f.slugHeld

C12_Witness ==
    \E f, s \in done :
        /\ RacingUploads(f, s)
        /\ f.status = 201 /\ s.status = 500
        /\ f.slug # s.slug
        /\ f.label = Some(<<"a", "-", "2">>) /\ s.label = Some(<<"a", "-", "2">>)
        /\ ~s.slugHeld

----------------------------------------------------------------------------
(* Properties of the content store *)

\* C14: getSoul never raises. It returns the absent value when the key does
\* not exist, when the response is not 2xx and when the transport fails; when
\* it returns a text, the response was 2xx (S3) and the text is the one stored
\* under the key.
C14_GetSoulNeverRaises ==
    (resp.call = "getSoul") =>
        /\ ~resp.raised
        /\ resp.slug[1] \notin DOMAIN storage => resp.value = None
        /\ (resp.impl = "s3" /\ resp.status \notin 200..299) => resp.value = None
        /\ resp.net = "down" => resp.value = None
        /\ resp.value # None =>
              /\ resp.impl = "s3" => resp.status \in 200..299
              /\ resp.slug[1] \in DOMAIN storage
              /\ resp.value = Some(storage[resp.slug[1]])

C14_Witness ==
    /\ resp.call = "getSoul" /\ resp.impl = "s3"
    /\ resp.net = "denied" /\ resp.status = 403
    /\ resp.slug[1] \in DOMAIN storage
    /\ resp.value = None /\ ~resp.raised

----------------------------------------------------------------------------
(* The cache and the commands *)

\* Two names that differ by the case of their letters only, letter by letter
\* over the letters the names of the catalogue use.
Caseless(a, b) ==
    /\ Len(a) = Len(b)
    /\ \A i \in 1..Len(a) :
          \/ a[i] = b[i]
          \/ { a[i], b[i] } \in { { "A", "a" }, { "B", "b" } }

\* The last command fetched a document and put it in the cache.
DidPut ==
    /\ cmd.name \in { "possess", "search", "summon" }
    /\ cmd.step = "registry"
    /\ cmd.fetch.metaOk
    /\ cmd.fetch.contentOk

\* C15: after any sequence of puts, touches and removes the cache index holds
\* at most one entry per name compared without case; a put for a name already
\* cached overwrites that entry where it is, so that after the put exactly one
\* entry has the name and it bears the hash of the put.
C15_OneEntryPerName ==
    /\ \A i, j \in 1..Len(cache) : Caseless(cache[i].name, cache[j].name) => i = j
    /\ DidPut =>
          /\ \E i \in 1..Len(cache) :
                /\ Caseless(cache[i].name, cmd.fetch.doc.name)
                /\ cache[i].hash = sha256(cmd.fetch.doc.content)
          /\ \A k \in 1..Len(cmd.preCache) :
                Caseless(cmd.preCache[k].name, cmd.fetch.doc.name) =>
                   /\ Len(cache) = Len(cmd.preCache)
                   /\ Caseless(cache[k].name, cmd.fetch.doc.name)

\* A second put of a cached name, written in another case and with another
\* hash, has left one entry with the second hash.
C15_Witness ==
    /\ DidPut
    /\ Len(cmd.preCache) = 1
    /\ cmd.preCache[1].name # cmd.fetch.doc.name
    /\ Caseless(cmd.preCache[1].name, cmd.fetch.doc.name)
    /\ cmd.preCache[1].hash # sha256(cmd.fetch.doc.content)
    /\ cmd.preCache[1].lastUsedAt # None
    /\ Len(cache) = 1
    /\ cache[1].hash = sha256(cmd.fetch.doc.content)

\* The names of the entries of c that match the token fuzzily
Candidates(c, token) ==
    LET m == SelectSeq(c, LAMBDA e : FuzzyMatch(e.name, token)) IN
    [ i \in 1..Len(m) |-> m[i].name ]

\* The last command was possess with a token that names no file and no cache
\* entry but matches a cached name fuzzily.
Ambiguous ==
    /\ cmd.name = "possess"
    /\ cmd.file = None
    /\ \A i \in 1..Len(cmd.preCache) : ~Caseless(cmd.preCache[i].name, cmd.token)
    /\ Candidates(cmd.preCache, cmd.token) # << >>

\* The last command left the active file, the backup and the cache as they were.
WroteNothing ==
    /\ soulFile = cmd.preFile
    /\ backupFile = cmd.preBackup
    /\ cache = cmd.preCache

\* C16: when the token of possess names no existing file and has no exact
\* cache entry but at least one cached name matches it fuzzily, possess fails
\* with the list of candidates and makes no choice: no request goes to the
\* registry, the active file and the backup are not written, the cache is not
\* changed.
C16_FuzzyMatchFailsWithCandidates ==
    Ambiguous =>
       /\ cmd.outcome = "exit 1: not found in cache"
       /\ cmd.candidates = Candidates(cmd.preCache, cmd.token)
       /\ cmd.requests = {}
       /\ cmd.applied = None
       /\ WroteNothing

\* possess a-b with A b cached and a file in place: the command failed naming
\* A b.
C16_Witness ==
    /\ Ambiguous
    /\ cmd.token = <<"a", "-", "b">>
    /\ cmd.candidates = << <<"A", " ", "b">> >>
    /\ soulFile # None
    /\ cmd.outcome = "exit 1: not found in cache"

\* The last command was possess, reached the registry, and one of its two
\* fetches failed.
FetchFailed ==
    /\ cmd.name = "possess"
    /\ cmd.step = "registry"
    /\ ~(cmd.fetch.metaOk /\ cmd.fetch.contentOk)

\* C17: in the registry step of possess the metadata and the content are both
\* required: if either fetch fails, whichever settles first, nothing is added
\* to the cache, the active file and the backup are not written, and possess
\* fails without activating any document (labels are only suggested).
C17_BothFetchesRequired ==
    FetchFailed =>
       /\ cmd.outcome = "exit 1: not found as a local file, in cache, or in the registry"
       /\ cmd.applied = None
       /\ WroteNothing

\* The metadata arrived, the content failed after it, labels were suggested,
\* and the active file is what it was.
C17_Witness ==
    /\ FetchFailed
    /\ cmd.fetch.metaOk
    /\ cmd.fetch.first = "meta"
    /\ cmd.candidates # << >>
    /\ soulFile # None
    /\ cmd.outcome = "exit 1: not found as a local file, in cache, or in the registry"

\* C18: every command that applies a cached document to the active file with
\* swapSoul also touches its cache entry: the entry's lastUsedAt is the time
\* of the command.
C18_AppliedIsTouched ==
    cmd.name \in { "possess", "search" } /\ cmd.applied # None =>
       \E i \in 1..Len(cache) :
          /\ cache[i].name = cmd.applied[1]
          /\ cache[i].lastUsedAt = Some(cmd.time)

\* C19: possess --dry-run writes nothing: however the token resolves, the
\* active file, the backup and the cache with its contents are after the
\* command what they were before it.
C19_DryRunWritesNothing ==
    cmd.name = "possess" /\ cmd.opts.dryRun => WroteNothing

----------------------------------------------------------------------------
(* Properties of the swap engine on a fresh machine *)

\* C22: for every sequence of swapSoul and rollbackSoul calls in any order,
\* starting from an existing ORIGINAL file C0 and no backup, whenever a backup
\* exists it holds C0 (never content written by a swap), and every successful
\* rollback leaves the active file ORIGINAL.
C22_BackupIsAlwaysC0 ==
    IsOriginal(c0) =>
       /\ hasBackup => backupFile = c0 /\ ~isSwappedFile(backupFile)
       /\ (last.name = "rollback" /\ last.ret = TRUE) => IsOriginal(soulFile) /\ soulFile = c0

\* swap, rollback, swap again: the second backup write wrote C0 again, and a
\* swap over swapped content has left the backup alone.
C22_Witness ==
    /\ IsOriginal(c0)
    /\ backupWrites = 2
    /\ last.name = "swap" /\ last.ret = FALSE /\ isSwappedFile(last.preFile)
    /\ backupFile = c0

\* C24: with no active file and no backup, swapSoul succeeds, creates the
\* parent directory, writes the marked content and returns backedUp = false
\* without a backup; from there no sequence of swapSoul and rollbackSoul calls
\* creates a backup, and every rollbackSoul returns false and leaves the
\* file SWAPPED.
C24_NoFileNoBackupEver ==
    c0 = None =>
       /\ backupFile = None /\ backupWrites = 0
       /\ existsSync(soulFile) => soulDir /\ isSwapped
       /\ last.name = "swap" =>
             last.ret = FALSE /\ soulDir /\ soulFile = Some(Marked(last.arg[1]))
       /\ last.name = "rollback" =>
             /\ last.ret = FALSE /\ soulFile = last.preFile
             /\ existsSync(last.preFile) => isSwapped

\* The directory did not exist; after swaps a rollback has returned false.
C24_Witness ==
    /\ c0 = None /\ nOps >= 3
    /\ last.name = "rollback" /\ last.ret = FALSE /\ last.prev = "swap"
    /\ isSwapped /\ backupFile = None /\ ~backupDir

----------------------------------------------------------------------------
(* Properties of swapSoul run by two processes *)

\* Process p found the file unswapped and made its copy after another
\* process had written the file.
CopiedLate(p) == procs[p].backedUp /\ procs[p].pc \in { "copied", "done" } /\ procs[p].late

\* C23: swapSoul is not protected against a second invocation running beside
\* it: starting from an ORIGINAL file C0, when both processes evaluate the
\* not-swapped check before either writes and one copies after the other has
\* written, the backup slot holds marker-prefixed swapped content and
\* rollbackSoul does not bring C0 back.
C23_RacingSwapsLoseOriginal ==
    (IsOriginal(c0) /\ \E p \in Procs : CopiedLate(p)) =>
       /\ isSwappedFile(backupFile)
       /\ backupFile # c0
       /\ rollbackResult(backupFile, soulFile).soul # c0
       /\ last.name = "rollback" => soulFile # c0 /\ isSwapped

\* Both processes saw the ORIGINAL file, both are done, the backup holds what
\* one of them wrote, and a rollback has restored that instead of C0.
C23_Witness ==
    /\ IsOriginal(c0)
    /\ \A p \in Procs : procs[p].pc = "done" /\ procs[p].seen = c0 /\ procs[p].backedUp
    /\ \E p \in Procs : CopiedLate(p)
    /\ isSwappedFile(backupFile)
    /\ last.name = "rollback" /\ last.ret = TRUE
    /\ soulFile = backupFile /\ soulFile # c0

----------------------------------------------------------------------------
(* Properties of the resolution order of possess *)

\* C25: a local file wins: when the token of possess names an existing file,
\* the content applied is the file's even if a cache entry of that name
\* exists, no request goes to the registry, and the cache is neither changed
\* nor touched.
C25_LocalFileWins ==
    (cmd.name = "possess" /\ cmd.file # None) =>
       /\ cmd.step = "file"
       /\ cmd.requests = {}
       /\ cmd.applied = None
       /\ cache = cmd.preCache
       /\ cmd.outcome = "possessed" => soulFile = Some(Marked(cmd.file[1]))
       /\ cmd.outcome # "possessed" => soulFile = cmd.preFile /\ backupFile = cmd.preBackup

\* A b is cached with another content than the file named A b holds: the
\* file's content was applied and the entry is as it was, never used.
C25_Witness ==
    /\ cmd.name = "possess" /\ cmd.file = Some(<<"#">>)
    /\ cmd.token = <<"A", " ", "b">>
    /\ Len(cache) = 1
    /\ Caseless(cache[1].name, cmd.token)
    /\ cache[1].content = <<"#", "#">>
    /\ cache[1].lastUsedAt = None
    /\ cmd.outcome = "possessed"
    /\ soulFile = Some(Marked(<<"#">>))

\* C30: possess is repeatable for a registry label: after possess(t) has
\* fetched and cached the document of t from the registry, a second
\* possess(t) with the cache as the first left it resolves to that cached
\* entry instead of failing with the fuzzy-match error.
C30_PossessIsRepeatable ==
    (cmd.name = "possess" /\ cmd.repeats /\ cmd.file = None) =>
       /\ cmd.step = "cache"
       /\ cmd.outcome # "exit 1: not found in cache"

----------------------------------------------------------------------------
(* Properties of download tracking *)

\* The download requests answered so far that named document s
DownloadsOf(s) ==
    { d \in done : d.route = "download" /\ (d.ident = s.slug \/ d.ident = s.label) }

\* The rating columns of the documents, by id
RatingColumns(tbl) == { <<s.id, s.rating_avg, s.rating_count>> : s \in tbl }

\* C29: download tracking is one atomic increment: after N download requests
\* for a document, however they interleave with each other and with rate
\* requests, its downloads_count has grown by exactly N; a download leaves
\* rating_avg and rating_count alone; a download for an unknown identifier
\* answers ok and changes no document.
C29_DownloadsAreCounted ==
    /\ [](\A s \in souls : s.downloads_count = Cardinality(DownloadsOf(s)))
    /\ [][done' # done =>
            /\ RatingColumns(souls') = RatingColumns(souls)
            /\ \A d \in done' \ done :
                  /\ d.ok
                  /\ FindSoul(souls, d.ident) = {} => souls' = souls]_vars

\* Two downloads of one document, by slug and by label, were answered while a
\* rate request for it was between its statements.
C29_Witness ==
    /\ \E s \in souls : s.downloads_count = 2 /\ Cardinality(DownloadsOf(s)) = 2
                        /\ { d.ident : d \in DownloadsOf(s) } = { SlugOne, LabelOne }
    /\ \E r \in reqs : r.pc = "write" /\ r.id = 1

----------------------------------------------------------------------------
(* Properties of the listing *)

\* The last request answered was a listing.
Listed == "route" \in DOMAIN resp /\ resp.route = "list"

\* The documents of the table the listing read that pass its filter
Filtered == { s \in resp.tbl : Where(s, resp.tag, resp.search) }

\* C21: listing filters before it paginates: for every integer page and limit
\* the effective page is at least 1 (the page asked for when that is at least
\* 1), the effective limit is within 1..100 (20 when absent), total is the
\* number of documents passing the filter, totalPages is ceil(total / limit),
\* and data is the slice of the filtered, ordered list that starts at offset
\* (page - 1) * limit and has at most limit items.
C21_FilterThenPaginate ==
    Listed =>
       LET p == resp.pagination
           from == (p.page - 1) * p.limit
       IN /\ p.page >= 1
          /\ resp.query.page # None /\ resp.query.page[1] >= 1 => p.page = resp.query.page[1]
          /\ p.limit \in 1..100
          /\ resp.query.limit = None => p.limit = 20
          /\ resp.query.limit # None /\ resp.query.limit[1] \in 1..100 =>
                p.limit = resp.query.limit[1]
          /\ p.total = Cardinality(Filtered)
          /\ p.totalPages * p.limit >= p.total
          /\ (p.totalPages - 1) * p.limit < p.total \/ (p.total = 0 /\ p.totalPages = 0)
          /\ Len(resp.data) <= p.limit
          /\ \E l \in Orderings(Filtered, resp.sort) :
                /\ Len(resp.data) = Max(0, Min(p.limit, p.total - from))
                /\ \A i \in 1..Len(resp.data) : resp.data[i] = l[from + i]

\* Page 2 of a search with limit 1 over three documents of which two pass the
\* filter: the second of them is answered, total 2, totalPages 2.
C21_Witness ==
    /\ Listed
    /\ resp.search # None /\ resp.tag = None
    /\ Cardinality(resp.tbl) = 3
    /\ resp.pagination = [ page |-> 2, limit |-> 1, total |-> 2, totalPages |-> 2 ]
    /\ Len(resp.data) = 1

RowSlugs == { s.slug : s \in souls }
StoredSlugs == DOMAIN storage

\* C27: an upload that does not succeed leaves nothing behind. Once every
\* upload request has ended (no other request was made), every content object
\* in storage is under the slug of a document row, and every document row has
\* content stored under its slug.
C27_FailedUploadLeavesNothing ==
    (reqs = {} /\ \A d \in done : d.route = "upload") => StoredSlugs = RowSlugs


\* C28: an identifier given to the registry selects at most one document in
\* every reachable state: no document's label equals a different document's
\* slug, whether the label was minted by generateLabel or set through PATCH.
C28_IdentifierSelectsOneDocument ==
    /\ \A s, t \in souls : s.id # t.id => s.label # t.slug
    /\ \A ident \in RowSlugs \cup { s.label : s \in souls } :
          Cardinality(FindSoul(souls, ident)) <= 1


====
